---- MODULE Spec2Model ----
(***************************************************************************)
(* State-machine model of the Open Ephys crossing detector plugin          *)
(* (src/Source/CrossingDetector.cpp, CrossingDetector.h, CircularArray.h). *)
(*                                                                         *)
(* Sample values, thresholds and the jump limit are integers (the floats   *)
(* of the code restricted to small whole numbers, on which float           *)
(* arithmetic is exact).  The strictness fractions, the sleep after a jump *)
(* in seconds and the quantities of the adaptive threshold (indicator      *)
(* values, target, ranges, learning rates, the divisor, and the thresholds *)
(* they move) are kept in units of 1 / Scale, binary fractions that float  *)
(* and double hold exactly.                                                *)
(***************************************************************************)
EXTENDS Integers, Sequences, FiniteSets, TLC

(***************************************************************************)
(* Bounds of the model.                                                    *)
(***************************************************************************)
MaxSamples == 5
MaxBuf == 4
MaxSpan == 1

\* the buffers of 1..MaxBuf samples over a set of sample values
BuffersOver(values) == UNION {[1..n -> values] : n \in 1..MaxBuf}

\* fractional quantities (the adaptive threshold's values, the strictness of
\* the votes, the sleep in seconds) are kept in eighths, which float and
\* double hold exactly
Scale == 8

(***************************************************************************)
(* Integer helpers (jmax, jmin, std::max, abs, ceil and floor of a         *)
(* quotient of non-negative integers).                                     *)
(***************************************************************************)
jmax(a, b) == IF a >= b THEN a ELSE b
jmin(a, b) == IF a <= b THEN a ELSE b
absVal(x) == IF x < 0 THEN -x ELSE x
CeilDiv(a, b) == (a + b - 1) \div b
FloorDiv(a, b) == a \div b

\* C++ remainder (truncated towards zero), for m > 0.
CRem(x, m) == IF x >= 0 THEN x % m ELSE -((-x) % m)

(***************************************************************************)
(* juce::Array<float> as a sequence; index 0 of the code is index 1 here.  *)
(***************************************************************************)
Fill(v, n) == [k \in 1..n |-> v]

ArraySet(arr, idx, v) ==
    IF idx >= 0 /\ idx < Len(arr) THEN [arr EXCEPT ![idx + 1] = v]
    ELSE IF idx >= 0 THEN Append(arr, v)
    ELSE arr

ArrayInsertMultiple(arr, idx, v, n) ==
    IF n <= 0 THEN arr
    ELSE IF idx >= 0 /\ idx < Len(arr)
         THEN SubSeq(arr, 1, idx) \o Fill(v, n) \o SubSeq(arr, idx + 1, Len(arr))
         ELSE arr \o Fill(v, n)

ArrayRemoveLast(arr, n) == SubSeq(arr, 1, Len(arr) - jmin(jmax(n, 0), Len(arr)))

ArrayRemoveRange(arr, startIndex, n) ==
    LET lo == jmin(jmax(startIndex, 0), Len(arr))
        hi == jmin(jmax(startIndex + n, 0), Len(arr))
    IN  IF hi > lo THEN SubSeq(arr, 1, lo) \o SubSeq(arr, hi + 1, Len(arr)) ELSE arr

(***************************************************************************)
(* CircularArray<float>: a record [array, start, isReset].                 *)
(***************************************************************************)
DefaultElement == 0

CircularArray(length) ==
    [array |-> Fill(DefaultElement, jmax(0, length)), start |-> 0, isReset |-> TRUE]

size(ca) == Len(ca.array)

mod(x, m) == CRem(CRem(x, m) + m, m)

circToLinInd(ca, index) == mod(ca.start + index, size(ca))

reset(ca) ==
    [array |-> Fill(DefaultElement, size(ca)), start |-> 0, isReset |-> TRUE]

clear(ca) == [array |-> <<>>, start |-> 0, isReset |-> TRUE]

\* operator[]
get(ca, index) ==
    IF size(ca) > 0 THEN ca.array[circToLinInd(ca, index) + 1] ELSE DefaultElement

\* set that leaves isReset as it was
SetKeepsReset(ca, indexToChange, newValue) ==
    IF size(ca) > 0
    THEN [ca EXCEPT !.array = ArraySet(@, circToLinInd(ca, indexToChange), newValue)]
    ELSE ca

\* set: a no-op on an empty array
set(ca, indexToChange, newValue) ==
    IF size(ca) > 0
    THEN [ca EXCEPT !.array = ArraySet(@, circToLinInd(ca, indexToChange), newValue),
                    !.isReset = @ /\ newValue = DefaultElement]
    ELSE ca

\* enqueue, on an array that is not empty
enqueue(ca, newValue) ==
    [set(ca, 0, newValue) EXCEPT !.start = mod(ca.start + 1, size(ca)),
                                 !.isReset = FALSE]

\* mod(x, 0), which enqueue and enqueueArray reach on an empty array: the
\* jassert(m > 0) fails and x % 0 is undefined.  The build traps on the
\* division, or goes on with a value that is left to the hardware (x where
\* the quotient of a division by zero is 0, and any other int).
modByZero(x) ==
    {[trapped |-> TRUE, value |-> 0]}
        \cup {[trapped |-> FALSE, value |-> v] : v \in {x, 0, -1}}

RECURSIVE SetRun(_, _, _, _, _)
\* for (i = 0; i < count; ++i) array.set(at + i, vals[from + i])   (from is 0-based)
SetRun(arr, at, vals, from, count) ==
    IF count <= 0 THEN arr
    ELSE SetRun(ArraySet(arr, at, vals[from + 1]), at + 1, vals, from + 1, count - 1)

EnqueueSkipFirst(newValues, ca) ==
    LET length == size(ca)
        n == jmin(Len(newValues), length)
        nToSkip == 0
        nFirstSegment == jmin(n, length - ca.start)
        nSecondSegment == n - nFirstSegment
        a1 == SetRun(ca.array, ca.start, newValues, nToSkip, nFirstSegment)
        a2 == SetRun(a1, 0, newValues, nToSkip + nFirstSegment, nSecondSegment)
    IN  [array |-> a2, start |-> mod(ca.start + n, length), isReset |-> FALSE]

\* the values written, the start left where it was
EnqueueNoAdvance(newValues, ca) ==
    LET length == size(ca)
        numberOfElements == Len(newValues)
        n == jmin(numberOfElements, length)
        nToSkip == numberOfElements - n
        nFirstSegment == jmin(n, length - ca.start)
        nSecondSegment == n - nFirstSegment
        a1 == SetRun(ca.array, ca.start, newValues, nToSkip, nFirstSegment)
        a2 == SetRun(a1, 0, newValues, nToSkip + nFirstSegment, nSecondSegment)
    IN  [array |-> a2, start |-> ca.start, isReset |-> FALSE]

enqueueArray(newValues, ca) ==
    LET length == size(ca)
        numberOfElements == Len(newValues)
        n == jmin(numberOfElements, length)
        nToSkip == numberOfElements - n
        nFirstSegment == jmin(n, length - ca.start)
        nSecondSegment == n - nFirstSegment
        a1 == SetRun(ca.array, ca.start, newValues, nToSkip, nFirstSegment)
        a2 == SetRun(a1, 0, newValues, nToSkip + nFirstSegment, nSecondSegment)
    IN  [array |-> a2, start |-> mod(ca.start + n, length), isReset |-> FALSE]

insertMultiple(ca, indexToInsertAt0, newElement, numberOfTimesToInsertIt) ==
    IF numberOfTimesToInsertIt <= 0 THEN ca
    ELSE
      LET length == size(ca)
          indexToInsertAt ==
              IF indexToInsertAt0 < 0 \/ indexToInsertAt0 >= length
              THEN length ELSE indexToInsertAt0
          start1 == IF length > 0 /\ ca.isReset
                    THEN CRem(length - indexToInsertAt, length) ELSE ca.start
          linIndexToInsertAt ==
              IF length > 0
              THEN mod(start1 + indexToInsertAt - 1, length) + 1
              ELSE 0
          arr == ArrayInsertMultiple(ca.array, linIndexToInsertAt, newElement,
                                     numberOfTimesToInsertIt)
          start2 == IF linIndexToInsertAt <= start1 /\ indexToInsertAt > 0
                    THEN start1 + numberOfTimesToInsertIt ELSE start1
          start3 == IF indexToInsertAt = 0 /\ start2 = 0
                    THEN start2 + length ELSE start2
      IN  [array |-> arr, start |-> start3,
           isReset |-> ca.isReset /\ newElement = DefaultElement]

\* the elements removed from the linear end, wherever the start is
RemoveLinearEnd(ca, howManyToRemove) ==
    IF howManyToRemove <= 0 THEN ca
    ELSE IF howManyToRemove >= size(ca) THEN clear(ca)
    ELSE [ca EXCEPT !.array = ArrayRemoveLast(ca.array, howManyToRemove),
                    !.start = IF ca.isReset THEN 0 ELSE jmin(@, size(ca) - howManyToRemove - 1)]

removeLast(ca, howManyToRemove) ==
    IF howManyToRemove <= 0 THEN ca
    ELSE
      LET length == size(ca) IN
      IF howManyToRemove >= length THEN clear(ca)
      ELSE IF ca.isReset
      THEN [ca EXCEPT !.start = 0, !.array = ArrayRemoveLast(ca.array, howManyToRemove)]
      ELSE
        LET numRemoveFromStart == jmin(ca.start, howManyToRemove)
            numRemoveFromEnd == howManyToRemove - numRemoveFromStart
            a1 == ArrayRemoveLast(ca.array, numRemoveFromEnd)
            a2 == ArrayRemoveRange(a1, ca.start - numRemoveFromStart, numRemoveFromStart)
        IN  [ca EXCEPT !.array = a2, !.start = ca.start - numRemoveFromStart]

ResizeKeepLength(ca, targetNumItems) == ca

resize(ca, targetNumItems) ==
    LET length == size(ca) IN
    IF targetNumItems = 0 THEN clear(ca)
    ELSE IF targetNumItems > length
    THEN insertMultiple(ca, length, DefaultElement, targetNumItems - length)
    ELSE removeLast(ca, length - targetNumItems)


(***************************************************************************)
(* State.  Parameters of CrossingDetector (CrossingDetector.h 171-228),    *)
(* the per-stream CrossingDetectorSettings (CrossingDetector.h 73-91), the *)
(* detector internals (CrossingDetector.h 230-242), the host (acquisition  *)
(* flag, sample number of the next block) and observation variables that   *)
(* record what the last process call received and emitted.                 *)
(***************************************************************************)
VARIABLES
    \* parameters
    constantThresh, posOn, negOn, eventDuration, timeout,
    useBufferEndMask, bufferEndMaskMs,
    pastSpan, futureSpan, pastStrict, futureStrict,
    useJumpLimit, jumpLimit, jumpLimitSleep,
    \* threshold configuration
    thresholdType, randomThreshRange, thresholdChannel,
    \* adaptive threshold: parameters, and the state of the learner
    indicatorChannel, indicatorTarget, useIndicatorRange, indicatorRange,
    startLearningRate, minLearningRate, decayRate, adaptThreshPaused,
    useAdaptThreshRange, adaptThreshRange,
    currLearningRate, currMinLearningRate, currLRDivisor,
    \* stream settings
    sampleRate, eventDurationSamp, timeoutSamp, bufferEndMaskSamp, turnoffEvent,
    \* internals
    jumpLimitElapsed, sampToReenable, pastSamplesAbove, futureSamplesAbove,
    inputHistory, thresholdHistory,
    \* host
    acquiring, startTs,
    \* observations of the last process call
    lastOp, lastStart, lastBuf, lastThr, events, voteLog, trigLog,
    \* samples and realized thresholds that preceded the last process call
    preIn, preTh,
    \* samples processed and on-events emitted since the last parameter change,
    \* start or stop
    stream, onLog,
    \* a second detector with the same parameters, fed the same samples one per call
    ref, refLog,
    \* the blocks of a continuing acquisition: block is flipped by each process
    \* call, off by each process call that emits an off-event
    live,
    \* the last call of toEquivalentInRange or errorFromTarget: arguments and result
    call,
    \* the channel selection of the stream's settings, whether updateSettings gave
    \* them an event channel, and the threshold toggle
    inputChannel, eventChannelPtr, toggleThreshold,
    \* the value held by the parameter "constant_threshold", which the learner,
    \* writing constantThresh, leaves behind
    constant_threshold,
    \* the last process call on a whole continuous buffer: the buffer before and
    \* after, the indicator events it found, and how it ended
    host

threshConfig == <<thresholdType, randomThreshRange, thresholdChannel>>
adaptive == <<indicatorChannel, indicatorTarget, useIndicatorRange, indicatorRange,
              startLearningRate, minLearningRate, decayRate, adaptThreshPaused,
              useAdaptThreshRange, adaptThreshRange>>
learner == <<currLearningRate, currMinLearningRate, currLRDivisor>>
\* the parameters of detection
detection == <<posOn, negOn, eventDuration, timeout, useBufferEndMask, bufferEndMaskMs,
               pastStrict, futureStrict, useJumpLimit, jumpLimit, jumpLimitSleep,
               sampleRate>>
\* the parameters, with the learner, which no operation on samples writes
params == <<constantThresh, posOn, negOn, eventDuration, timeout,
            useBufferEndMask, bufferEndMaskMs, pastStrict, futureStrict,
            useJumpLimit, jumpLimit, jumpLimitSleep, sampleRate,
            threshConfig, adaptive, learner>>
spans == <<pastSpan, futureSpan>>
converted == <<eventDurationSamp, timeoutSamp, bufferEndMaskSamp>>
internals == <<jumpLimitElapsed, sampToReenable, pastSamplesAbove, futureSamplesAbove,
               inputHistory, thresholdHistory, turnoffEvent>>
observed == <<lastOp, lastStart, lastBuf, lastThr, events, voteLog, trigLog,
              preIn, preTh, stream, onLog>>
selection == <<inputChannel, eventChannelPtr, toggleThreshold, host, constant_threshold>>
vars == <<params, spans, converted, internals, acquiring, startTs, observed, ref, refLog,
          live, call, selection>>

\* pastSpan + futureSpan + 2, the size both histories are given
historyLength == pastSpan + futureSpan + 2

\* pastSpan + futureSpan + 1, the warm-up value of sampToReenable
warmUp == pastSpan + futureSpan + 1

(***************************************************************************)
(* CrossingDetectorSettings::updateSampleRateDependentValues.              *)
(* Durations are whole milliseconds and the sample rate a whole number of  *)
(* Hz.  The code computes ms * sampleRate / 1000.0f in float: the int ms,   *)
(* the product and the quotient are each rounded to the nearest value of   *)
(* 24 significant bits, ties to even, before ceil or floor is taken.       *)
(***************************************************************************)
RECURSIVE bitLength(_)
\* the number of bits of n >= 0
bitLength(n) == IF n = 0 THEN 0 ELSE 1 + bitLength(n \div 2)

\* the float nearest to the integer n, of either sign; for a value kept in
\* units of 1 / Scale it is the float nearest to that value, in the same
\* units, Scale being a power of two
floatOf(n) ==
    LET a == IF n < 0 THEN -n ELSE n
        unit == 2 ^ (bitLength(a) - 24)
        q == a \div unit
        r == a % unit
        rounded == IF bitLength(a) <= 24 THEN a
                   ELSE IF 2 * r > unit \/ (2 * r = unit /\ q % 2 = 1)
                   THEN (q + 1) * unit ELSE q * unit
    IN  IF n < 0 THEN -rounded ELSE rounded

\* the float nearest to f / 1000.0f for a float f holding an integer n >= 0,
\* as the record [m, k] of the value m / 2^k.  A quotient below 8 has more
\* than 21 fractional bits in float; it is rounded to 21 here, which leaves
\* its ceil and its floor the same, the quotient being a multiple of 1 / 1000.
floatDivThousand(f) ==
    LET k == jmin(24 - bitLength(f \div 1000), 21)
        scaled == (f % 1000) * 2 ^ k
        m == (f \div 1000) * 2 ^ k + scaled \div 1000
        r == scaled % 1000
    IN  [m |-> IF 2 * r > 1000 \/ (2 * r = 1000 /\ m % 2 = 1) THEN m + 1 ELSE m,
         k |-> k]

\* int(std::ceil(ms * sampleRate / 1000.0f))
durationToSamples(ms, rate) ==
    LET q == floatDivThousand(floatOf(floatOf(ms) * rate)) IN CeilDiv(q.m, 2 ^ q.k)

\* int(std::floor(ms * sampleRate / 1000.0f))
timeoutToSamples(ms, rate) ==
    LET q == floatDivThousand(floatOf(floatOf(ms) * rate)) IN FloorDiv(q.m, 2 ^ q.k)

updateSampleRateDependentValues(eventDuration_, timeout_, bufferEndMask_) ==
    /\ eventDurationSamp' = durationToSamples(eventDuration_, sampleRate)
    /\ timeoutSamp' = timeoutToSamples(timeout_, sampleRate)
    /\ bufferEndMaskSamp' = durationToSamples(bufferEndMask_, sampleRate)

(***************************************************************************)
(* CrossingDetectorSettings::createEvent: a TTL event with its metadata.   *)
(*   on    - event state (TRUE turning on, FALSE turning off)              *)
(*   ts    - sample number of the event                                    *)
(*   cross, level, thresh, dir, lr - the five metadata values              *)
(***************************************************************************)
\* the direction of a level that equals the threshold is 1
CreateEventAtOrAbove(bufferTs, crossingOffset, bufferLength, threshold, crossingLevel, eventState, learningRate) ==
    [on |-> eventState,
     ts |-> IF eventState
            THEN bufferTs + jmax(crossingOffset, 0)
            ELSE bufferTs + jmax(crossingOffset, 0) + eventDurationSamp,
     cross |-> bufferTs + crossingOffset,
     level |-> crossingLevel,
     thresh |-> threshold,
     dir |-> IF crossingLevel >= threshold THEN 1 ELSE 0,
     lr |-> learningRate]

createEvent(bufferTs, crossingOffset, bufferLength, threshold, crossingLevel, eventState, learningRate) ==
    [on |-> eventState,
     ts |-> IF eventState
            THEN bufferTs + jmax(crossingOffset, 0)
            ELSE bufferTs + jmax(crossingOffset, 0) + eventDurationSamp,
     cross |-> bufferTs + crossingOffset,
     level |-> crossingLevel,
     thresh |-> threshold,
     dir |-> IF crossingLevel > threshold THEN 1 ELSE 0,
     lr |-> learningRate]

(***************************************************************************)
(* The detector state a process call reads and writes, as a record, with   *)
(* the per-call working data: pThresh (currThresholds), out (the events    *)
(* given to addEvent, with their offsets), and the logs votes and trig.    *)
(***************************************************************************)
Self ==
    [sampToReenable |-> sampToReenable,
     pastSamplesAbove |-> pastSamplesAbove,
     futureSamplesAbove |-> futureSamplesAbove,
     jumpLimitElapsed |-> jumpLimitElapsed,
     inputHistory |-> inputHistory,
     thresholdHistory |-> thresholdHistory,
     turnoffEvent |-> turnoffEvent,
     constantThresh |-> constantThresh,
     currLearningRate |-> currLearningRate,
     rpThreshChan |-> <<>>,
     currPosOn |-> posOn, currNegOn |-> negOn,
     pThresh |-> <<>>, out |-> <<>>, votes |-> <<>>, trig |-> <<>>]

addEvent(d, event, sampleNum) ==
    [d EXCEPT !.out = Append(@, [ev |-> event, offset |-> sampleNum])]

\* the lambdas inputAt and thresholdAt of process
inputAt(d, rp, index) ==
    IF index < 0 THEN get(d.inputHistory, index) ELSE rp[index + 1]

thresholdAt(d, index) ==
    IF index < 0 THEN get(d.thresholdHistory, index) ELSE d.pThresh[index + 1]

isAbove(d, rp, index) == inputAt(d, rp, index) > thresholdAt(d, index)

(***************************************************************************)
(* CrossingDetector::shouldTrigger.  Returns the decision and the new      *)
(* value of jumpLimitElapsed.  jumpLimitSleep is kept in units of 1/Scale  *)
(* of a second; jumpLimitElapsed <= jumpLimitSleep * sampleRate is         *)
(* compared in float, both sides multiplied by Scale.                      *)
(***************************************************************************)
sleepNotElapsed(elapsed) == floatOf(elapsed) * Scale <= floatOf(jumpLimitSleep * sampleRate)

JumpExceedsOnlyAbove(preVal, postVal) == useJumpLimit /\ absVal(postVal - preVal) > jumpLimit

jumpExceeds(preVal, postVal) == useJumpLimit /\ absVal(postVal - preVal) >= jumpLimit

\* static_cast<int>(ceil(pastSpan * pastStrict)): the int span is converted to
\* float and the product rounded to float; the strictness is in units of
\* 1/Scale
pastSamplesNeeded ==
    IF pastSpan # 0 THEN CeilDiv(floatOf(floatOf(pastSpan) * pastStrict), Scale) ELSE 0

futureSamplesNeeded ==
    IF futureSpan # 0 THEN CeilDiv(floatOf(floatOf(futureSpan) * futureStrict), Scale) ELSE 0

PastSatLoose(direction, past) == TRUE

pastSat(direction, past) ==
    (IF direction THEN pastSpan - past ELSE past) >= pastSamplesNeeded

futureSat(direction, future) ==
    (IF direction THEN future ELSE futureSpan - future) >= futureSamplesNeeded

shouldTrigger(d, direction, preVal, postVal, preThresh, postThresh) ==
    IF jumpExceeds(preVal, postVal)
    THEN [result |-> FALSE, jumpLimitElapsed |-> 0]
    ELSE IF sleepNotElapsed(d.jumpLimitElapsed)
    THEN [result |-> FALSE, jumpLimitElapsed |-> d.jumpLimitElapsed + 1]
    ELSE
      LET preSat == direction # (preVal > preThresh)
          postSat == direction = (postVal > postThresh)
      IN  [result |-> preSat /\ postSat
                      /\ pastSat(direction, d.pastSamplesAbove)
                      /\ futureSat(direction, d.futureSamplesAbove),
           jumpLimitElapsed |-> d.jumpLimitElapsed]


(***************************************************************************)
(* CrossingDetector::process, one iteration of the loop over the samples   *)
(* of the buffer (lines 396-515), in the order of the code: the threshold  *)
(* of the sample, the voting counters, the gate, the trigger test, the     *)
(* events.                                                                 *)
(***************************************************************************)
\* indices leaving and entering the two voting windows
pastIndLeaving(indCross) == indCross - 2 - pastSpan

pastIndEntering(indCross) == indCross - 2

futureIndLeaving(indCross) == indCross

futureIndEntering(indCross) == indCross + futureSpan

\* the threshold of sample i: constantThresh in the types CONSTANT and
\* ADAPTIVE, the sample of the threshold channel in the type CHANNEL
sampleThreshold(d, rp, i) ==
    IF thresholdType = "CHANNEL" THEN d.rpThreshChan[i + 1] ELSE d.constantThresh

\* the sample leaving a window is not counted out
UpdateVotesNoLeaving(d, rp, indCross) ==
    LET b(index) == IF isAbove(d, rp, index) THEN 1 ELSE 0 IN
    [d EXCEPT
       !.pastSamplesAbove = IF pastSpan > 0 THEN @ + b(pastIndEntering(indCross)) ELSE @,
       !.futureSamplesAbove =
           IF futureSpan > 0 THEN @ + b(futureIndEntering(indCross)) ELSE @]

updateVotes(d, rp, indCross) ==
    LET b(index) == IF isAbove(d, rp, index) THEN 1 ELSE 0 IN
    [d EXCEPT
       !.pastSamplesAbove =
           IF pastSpan > 0
           THEN @ - b(pastIndLeaving(indCross)) + b(pastIndEntering(indCross))
           ELSE @,
       !.futureSamplesAbove =
           IF futureSpan > 0
           THEN @ - b(futureIndLeaving(indCross)) + b(futureIndEntering(indCross))
           ELSE @]

\* the mask on the candidates within bufferEndMaskSamp of the end of the buffer
MaskNearEnd(d, indCross, nSamples) ==
    \/ indCross < d.sampToReenable
    \/ (useBufferEndMask /\ nSamples - indCross <= bufferEndMaskSamp)

\* "can't trigger an event now"
cannotTrigger(d, indCross, nSamples) ==
    \/ indCross < d.sampToReenable
    \/ (useBufferEndMask /\ nSamples - indCross > bufferEndMaskSamp)

ReenableNoPlusOne(indCross) == indCross + timeoutSamp

reenableAfter(indCross) == indCross + 1 + timeoutSamp

\* "add off event now"
offFits(sampleNumOff, nSamples) == sampleNumOff <= nSamples

\* the events carry the learning rate in every threshold type
TriggerEventsWithRate(d, indCross, nSamples, bufTs, preVal, postVal, preThresh, postThresh) ==
    LET onEvent == createEvent(bufTs, indCross, nSamples, postThresh, postVal,
                               TRUE, d.currLearningRate)
        d1 == addEvent(d, onEvent, jmax(indCross, 0))
        sampleNumOff == jmax(indCross, 0) + eventDurationSamp
        offEvent == createEvent(bufTs, indCross, nSamples, postThresh, postVal,
                                FALSE, d.currLearningRate)
        d2 == IF offFits(sampleNumOff, nSamples)
              THEN addEvent(d1, offEvent, sampleNumOff)
              ELSE [d1 EXCEPT !.turnoffEvent = <<offEvent>>]
    IN  [d2 EXCEPT
           !.sampToReenable = reenableAfter(indCross),
           !.trig = Append(@, [cross |-> bufTs + indCross,
                               dir |-> onEvent.dir,
                               preVal |-> preVal, postVal |-> postVal,
                               past |-> d.pastSamplesAbove,
                               future |-> d.futureSamplesAbove])]

\* the body of "if (currPosOn && shouldTrigger(true, ...) || ...)"
triggerEvents(d, indCross, nSamples, bufTs, preVal, postVal, preThresh, postThresh) ==
    LET eventLearningRate == IF thresholdType = "ADAPTIVE" THEN d.currLearningRate ELSE 0
        onEvent == createEvent(bufTs, indCross, nSamples, postThresh, postVal,
                               TRUE, eventLearningRate)
        d1 == addEvent(d, onEvent, jmax(indCross, 0))
        sampleNumOff == jmax(indCross, 0) + eventDurationSamp
        offEvent == createEvent(bufTs, indCross, nSamples, postThresh, postVal,
                                FALSE, eventLearningRate)
        d2 == IF offFits(sampleNumOff, nSamples)
              THEN addEvent(d1, offEvent, sampleNumOff)
              ELSE [d1 EXCEPT !.turnoffEvent = <<offEvent>>]
    IN  [d2 EXCEPT
           !.sampToReenable = reenableAfter(indCross),
           !.trig = Append(@, [cross |-> bufTs + indCross,
                               dir |-> onEvent.dir,
                               preVal |-> preVal, postVal |-> postVal,
                               past |-> d.pastSamplesAbove,
                               future |-> d.futureSamplesAbove])]

processSample(d, rp, i, bufTs) ==
    LET nSamples == Len(rp)
        d1 == [d EXCEPT !.pThresh = Append(@, sampleThreshold(d, rp, i))]
        indCross == i - futureSpan
        tested(d3) ==
            LET preVal == inputAt(d3, rp, indCross - 1)
                preThresh == thresholdAt(d3, indCross - 1)
                postVal == inputAt(d3, rp, indCross)
                postThresh == thresholdAt(d3, indCross)
                no(dd) == [result |-> FALSE, jumpLimitElapsed |-> dd.jumpLimitElapsed]
                called(direction, before, r) ==
                    [direction |-> direction, preVal |-> preVal, postVal |-> postVal,
                     preThresh |-> preThresh, postThresh |-> postThresh,
                     before |-> before, result |-> r.result, after |-> r.jumpLimitElapsed]
                decided(d4, rising, falling) ==
                    LET d5 == [d4 EXCEPT
                                 !.jumpLimitElapsed = falling.jumpLimitElapsed,
                                 !.votes[Len(d4.votes)].calls =
                                     (IF d3.currPosOn
                                      THEN <<called(TRUE, d3.jumpLimitElapsed, rising)>>
                                      ELSE <<>>)
                                     \o (IF ~rising.result /\ d4.currNegOn
                                         THEN <<called(FALSE, d4.jumpLimitElapsed, falling)>>
                                         ELSE <<>>)]
                    IN  IF rising.result \/ falling.result
                        THEN triggerEvents(d5, indCross, nSamples, bufTs,
                                           preVal, postVal, preThresh, postThresh)
                        ELSE d5
            IN  CHOOSE out \in
                  UNION {UNION {{decided(d4, rising, falling) :
                                    falling \in {IF ~rising.result /\ d4.currNegOn
                                                 THEN shouldTrigger(d4, FALSE, preVal, postVal,
                                                                    preThresh, postThresh)
                                                 ELSE no(d4)}} :
                                d4 \in {[d3 EXCEPT !.jumpLimitElapsed = rising.jumpLimitElapsed]}} :
                         rising \in {IF d3.currPosOn
                                     THEN shouldTrigger(d3, TRUE, preVal, postVal,
                                                        preThresh, postThresh)
                                     ELSE no(d3)}} : TRUE
    IN  CHOOSE out \in
          UNION {{IF cannotTrigger(d3, indCross, nSamples) THEN d3 ELSE tested(d3) :
                     d3 \in {[d2 EXCEPT !.votes = Append(@, [past |-> d2.pastSamplesAbove,
                                                             future |-> d2.futureSamplesAbove,
                                                             elapsed |-> d2.jumpLimitElapsed,
                                                             calls |-> <<>>])]}} :
                 d2 \in {updateVotes(d1, rp, indCross)}} : TRUE

RECURSIVE processLoop(_, _, _, _)
\* for (int i = 0; i < nSamples; ++i), from iteration i on
processLoop(d, rp, i, bufTs) ==
    IF i >= Len(rp) THEN d
    ELSE CHOOSE out \in {processLoop(next, rp, i + 1, bufTs) :
                             next \in {processSample(d, rp, i, bufTs)}} : TRUE

TurnoffKeepsPending(d, nSamples, bufTs) ==
    LET turnoffOffset == IF d.turnoffEvent # <<>>
                         THEN jmax(0, d.turnoffEvent[1].ts - bufTs) ELSE -1
    IN  IF turnoffOffset >= 0 /\ turnoffOffset < nSamples
        THEN addEvent(d, d.turnoffEvent[1], turnoffOffset)
        ELSE d

\* "turn off event from previous buffer if necessary"
turnoffPending(d, nSamples, bufTs) ==
    LET turnoffOffset == IF d.turnoffEvent # <<>>
                         THEN jmax(0, d.turnoffEvent[1].ts - bufTs) ELSE -1
    IN  IF turnoffOffset >= 0 /\ turnoffOffset < nSamples
        THEN [addEvent(d, d.turnoffEvent[1], turnoffOffset) EXCEPT !.turnoffEvent = <<>>]
        ELSE d

\* the shift without its floor at 0
ShiftNoFloor(s, nSamples) == s - nSamples

\* "shift sampToReenable so it is relative to the next buffer"
shiftReenable(s, nSamples) == jmax(0, s - nSamples)

\* one call of process on the buffer rp of the input channel, whose first
\* sample has sample number bufTs
process(d, rp, bufTs) ==
    LET nSamples == Len(rp)
        d1 == turnoffPending(d, nSamples, bufTs)
        d2 == processLoop(d1, rp, 0, bufTs)
    IN  [d2 EXCEPT
           !.inputHistory = enqueueArray(rp, @),
           !.thresholdHistory = enqueueArray(d2.pThresh, @),
           !.sampToReenable = shiftReenable(@, nSamples)]


(***************************************************************************)
(* The circular ranges: CrossingDetector::toEquivalentInRange and          *)
(* CrossingDetector::errorFromTarget.  A range is the pair <<range[0],     *)
(* range[1]>>.  Each returns its value with the outcome of its jassert     *)
(* (asserted is FALSE when the asserted condition is reached and false).   *)
(***************************************************************************)
\* fmod for y # 0: the remainder of x / y with the sign of x
fmod(x, y) == IF x >= 0 THEN x % absVal(y) ELSE -((-x) % absVal(y))

\* the differences and the sums are floats: "x - bottom" is rounded before
\* fmod, which is exact, takes its remainder
toEquivalentInRange(x, range) ==
    LET top == range[2]
        bottom == range[1]
        rangeSize == floatOf(top - bottom)
    IN  IF x <= top /\ x >= bottom THEN [value |-> x, asserted |-> TRUE]
        ELSE IF rangeSize = 0 THEN [value |-> bottom, asserted |-> rangeSize >= 0]
        ELSE LET rem == fmod(floatOf(x - bottom), rangeSize)
             IN  [value |-> IF rem > 0 THEN floatOf(bottom + rem)
                            ELSE floatOf(floatOf(bottom + rem) + rangeSize),
                  asserted |-> rangeSize >= 0]

toIndicatorInRange(x) == toEquivalentInRange(x, indicatorRange)

toThresholdInRange(x) == toEquivalentInRange(x, adaptThreshRange)

errorFromTarget(x) ==
    IF useIndicatorRange
    THEN LET rangeSize == floatOf(indicatorRange[2] - indicatorRange[1])
             linearErr == floatOf(x - indicatorTarget)
         IN  [value |-> IF absVal(linearErr) * 2 < rangeSize THEN linearErr
                        ELSE IF linearErr > 0 THEN floatOf(linearErr - rangeSize)
                        ELSE floatOf(linearErr + rangeSize),
              asserted |-> rangeSize >= 0]
    ELSE [value |-> floatOf(x - indicatorTarget), asserted |-> TRUE]

\* no call yet
NoCall == [fn |-> "none"]

(***************************************************************************)
(* The adaptive threshold: CrossingDetector::restartAdaptiveThreshold and  *)
(* CrossingDetector::handleTTLEvent.  An event is a record                 *)
(*   chan - the event channel it arrives on                                *)
(*   meta - its metadata values, each with double (whether its type is     *)
(*          DOUBLE) and value                                              *)
(* The rates, the divisor, the error and the threshold are in units of     *)
(* 1 / Scale, so a product is divided by Scale and a dividend multiplied   *)
(* by it.                                                                  *)
(***************************************************************************)
restartAdaptiveThreshold ==
    [currLRDivisor |-> Scale,
     currLearningRate |-> startLearningRate,
     currMinLearningRate |-> minLearningRate]

\* the condition without the pause
AcceptsWhilePaused(event) ==
    /\ event.chan = indicatorChannel
    /\ thresholdType = "ADAPTIVE"

\* "eventChanInfo == indChanInfo && thresholdType == ADAPTIVE && !adaptThreshPaused"
accepts(event) ==
    /\ event.chan = indicatorChannel
    /\ thresholdType = "ADAPTIVE"
    /\ ~adaptThreshPaused

\* a value of any type is taken
HasValueOfAnyType(event) == Len(event.meta) > 0

\* the loop over the metadata reads getMetadataValue(0) at every iteration
hasValue(event) == Len(event.meta) > 0 /\ event.meta[1].double

\* the members the learner writes, as they are: a record l of these three is
\* what handleTTLEvent reads and returns
learnerNow ==
    [currLRDivisor |-> currLRDivisor,
     currLearningRate |-> currLearningRate,
     constantThresh |-> constantThresh]

\* the learner keeps the divisor before this event's decay
LearnerStepStaleDivisor(l, eventValue) ==
    LET eventErr == errorFromTarget(eventValue).value
        currDecayingLR == l.currLearningRate - currMinLearningRate
        rate == (currDecayingLR * Scale) \div l.currLRDivisor + currMinLearningRate
        moved == floatOf(l.constantThresh - (rate * eventErr) \div Scale)
    IN  [currLRDivisor |-> l.currLRDivisor + decayRate,
         currLearningRate |-> rate,
         constantThresh |-> IF useAdaptThreshRange
                            THEN toThresholdInRange(moved).value ELSE moved]

\* the body of "if (metadataValue->getDataType() == MetadataDescriptor::DOUBLE)";
\* "constantThresh -= currLearningRate * eventErr" subtracts in double and
\* stores the difference in the float constantThresh
learnerStep(l, eventValue) ==
    LET eventErr == errorFromTarget(eventValue).value
        divisor == l.currLRDivisor + decayRate
        currDecayingLR == l.currLearningRate - currMinLearningRate
        rate == (currDecayingLR * Scale) \div divisor + currMinLearningRate
        moved == floatOf(l.constantThresh - (rate * eventErr) \div Scale)
    IN  [currLRDivisor |-> divisor,
         currLearningRate |-> rate,
         constantThresh |-> IF useAdaptThreshRange
                            THEN toThresholdInRange(moved).value ELSE moved]

\* the quotient and the product of the step are whole numbers of 1 / Scale
exactStep(l, eventValue) ==
    LET divisor == l.currLRDivisor + decayRate
        currDecayingLR == l.currLearningRate - currMinLearningRate
    IN  /\ divisor > 0
        /\ (currDecayingLR * Scale) % divisor = 0
        /\ (learnerStep(l, eventValue).currLearningRate
              * errorFromTarget(eventValue).value) % Scale = 0

handleTTLEvent(l, event) ==
    IF accepts(event) /\ hasValue(event)
    THEN learnerStep(l, event.meta[1].value)
    ELSE l

\* every step that handleTTLEvent takes for the events of found, one after
\* the other from l, is exact
RECURSIVE exactSteps(_, _)
exactSteps(l, found) ==
    IF found = <<>> THEN TRUE
    ELSE /\ (accepts(Head(found)) /\ hasValue(Head(found)))
              => exactStep(l, Head(found).meta[1].value)
         /\ exactSteps(handleTTLEvent(l, Head(found)), Tail(found))

(***************************************************************************)
(* Observation helpers.                                                    *)
(***************************************************************************)
LastN(seq, n) == SubSeq(seq, Len(seq) - n + 1, Len(seq))

\* the on-events of a call, as (crossing sample number, direction)
Crossings(trig) == [k \in 1..Len(trig) |-> [cross |-> trig[k].cross, dir |-> trig[k].dir]]

\* the detector state of a record, without the working data of the call
Rest(d) == [d EXCEPT !.pThresh = <<>>, !.out = <<>>, !.votes = <<>>, !.trig = <<>>]

\* an operation other than process: the observations of the last call are
\* cleared, and the samples that precede the next call are newIn / newTh
ObserveVars(op, newIn, newTh) ==
    /\ call' = NoCall
    /\ lastOp' = op
    /\ preIn' = newIn
    /\ preTh' = newTh
    /\ lastBuf' = <<>> /\ lastThr' = <<>>
    /\ events' = <<>> /\ voteLog' = <<>> /\ trigLog' = <<>>
    /\ stream' = <<>> /\ onLog' = <<>>
    /\ UNCHANGED <<lastStart, live>>

Observe(op, newIn, newTh) == ObserveVars(op, newIn, newTh) /\ UNCHANGED selection

\* the histories are kept: the last call's samples join the preceding ones
Fold(op) ==
    Observe(op, LastN(preIn \o lastBuf, historyLength),
                LastN(preTh \o lastThr, historyLength))

(***************************************************************************)
(* Initial states: the detector as constructed (CrossingDetector.cpp       *)
(* 119-164) and configured by the host through parameterValueChanged,      *)
(* before acquisition starts.                                              *)
(***************************************************************************)
\* the adaptive threshold as configured: the target, the two circular ranges
\* and their switches, the learning rates and the decay.  The constructor
\* leaves currMinLearningRate uninitialised; cmlr is the value the last
\* restartAdaptiveThreshold of the configuration gave it, which is written
\* before handleTTLEvent can read it.
InitAdaptive(type, target, uir, irange, slr, mlr, decay, utr, trange, cmlr) ==
    /\ thresholdType = type
    /\ randomThreshRange = <<-180 * Scale, 180 * Scale>>
    /\ thresholdChannel = 0
    /\ indicatorChannel = -1
    /\ indicatorTarget = target
    /\ useIndicatorRange = uir /\ indicatorRange = irange
    /\ startLearningRate = slr /\ minLearningRate = mlr /\ decayRate = decay
    /\ adaptThreshPaused = FALSE
    /\ useAdaptThreshRange = utr /\ adaptThreshRange = trange
    /\ currLearningRate = slr
    /\ currMinLearningRate = cmlr
    /\ currLRDivisor = Scale

\* no process call on a whole continuous buffer yet
NoBuffer ==
    [before |-> <<>>, after |-> <<>>, found |-> <<>>, steps |-> <<>>, ended |-> "none"]

InitState(thr, pos, neg, dur, tout, ps, fs, pstr, fstr, ujl, jl, rate) ==
    /\ constantThresh = thr /\ constant_threshold = thr /\ posOn = pos /\ negOn = neg
    /\ eventDuration = dur /\ timeout = tout
    /\ useBufferEndMask = FALSE /\ bufferEndMaskMs = 3
    /\ pastSpan = ps /\ futureSpan = fs /\ pastStrict = pstr /\ futureStrict = fstr
    /\ useJumpLimit = ujl /\ jumpLimit = jl /\ jumpLimitSleep = 0
    /\ sampleRate = rate
    /\ eventDurationSamp = durationToSamples(dur, rate)
    /\ timeoutSamp = timeoutToSamples(tout, rate)
    /\ bufferEndMaskSamp = durationToSamples(3, rate)
    /\ turnoffEvent = <<>>
    /\ jumpLimitElapsed = 0
    /\ sampToReenable = ps + fs + 1
    /\ pastSamplesAbove = 0 /\ futureSamplesAbove = 0
    /\ inputHistory = CircularArray(ps + fs + 2)
    /\ thresholdHistory = CircularArray(ps + fs + 2)
    /\ acquiring = FALSE /\ startTs = 0
    /\ lastOp = "init" /\ lastStart = 0 /\ lastBuf = <<>> /\ lastThr = <<>>
    /\ events = <<>> /\ voteLog = <<>> /\ trigLog = <<>>
    /\ preIn = Fill(DefaultElement, ps + fs + 2)
    /\ preTh = Fill(DefaultElement, ps + fs + 2)
    /\ stream = <<>> /\ onLog = <<>>
    /\ ref = [sampToReenable |-> ps + fs + 1,
              pastSamplesAbove |-> 0, futureSamplesAbove |-> 0,
              jumpLimitElapsed |-> 0,
              inputHistory |-> CircularArray(ps + fs + 2),
              thresholdHistory |-> CircularArray(ps + fs + 2),
              turnoffEvent |-> <<>>,
              constantThresh |-> thr, currLearningRate |-> 0, rpThreshChan |-> <<>>,
              currPosOn |-> pos, currNegOn |-> neg,
              pThresh |-> <<>>, out |-> <<>>, votes |-> <<>>, trig |-> <<>>]
    /\ refLog = <<>>
    /\ call = NoCall
    /\ live = [block |-> FALSE, off |-> FALSE]

\* the first channel of the stream is selected as input, updateSettings has
\* given the settings their event channel, and the threshold toggle is off
InitDetector(thr, pos, neg, dur, tout, ps, fs, pstr, fstr, ujl, jl, rate) ==
    /\ InitState(thr, pos, neg, dur, tout, ps, fs, pstr, fstr, ujl, jl, rate)
    /\ inputChannel = 0 /\ eventChannelPtr = TRUE /\ toggleThreshold = FALSE
    /\ host = NoBuffer

\* the detector with the adaptive threshold as constructed: type CONSTANT,
\* target 180, both ranges [-180, 180] and in use; the constructor's rates
\* (0.02, 0.005, 0.00003) are no multiples of 1 / Scale, they are configured
\* as 1, 0 and 0
InitWith(thr, pos, neg, dur, tout, ps, fs, pstr, fstr, ujl, jl, rate) ==
    /\ InitDetector(thr, pos, neg, dur, tout, ps, fs, pstr, fstr, ujl, jl, rate)
    /\ InitAdaptive("CONSTANT", 180 * Scale, TRUE, <<-180 * Scale, 180 * Scale>>,
                    Scale, 0, 0, TRUE, <<-180 * Scale, 180 * Scale>>, 0)

(***************************************************************************)
(* Actions.                                                                *)
(***************************************************************************)
\* the host calls process with the next block of the input channel
ProcessVars(rp, logged) ==
    /\ acquiring
    /\ \E r \in {process(Self, rp, startTs)} :
         /\ sampToReenable' = r.sampToReenable
         /\ pastSamplesAbove' = r.pastSamplesAbove
         /\ futureSamplesAbove' = r.futureSamplesAbove
         /\ jumpLimitElapsed' = r.jumpLimitElapsed
         /\ inputHistory' = r.inputHistory
         /\ thresholdHistory' = r.thresholdHistory
         /\ turnoffEvent' = r.turnoffEvent
         /\ lastThr' = r.pThresh
         /\ events' = r.out
         /\ voteLog' = r.votes
         /\ trigLog' = r.trig
         /\ onLog' = IF logged THEN onLog \o Crossings(r.trig) ELSE onLog
    /\ startTs' = startTs + Len(rp)
    /\ lastOp' = "process" /\ lastStart' = startTs /\ lastBuf' = rp
    /\ preIn' = LastN(preIn \o lastBuf, historyLength)
    /\ preTh' = LastN(preTh \o lastThr, historyLength)
    /\ stream' = IF logged THEN stream \o rp ELSE stream
    /\ UNCHANGED <<params, spans, converted, acquiring, live, call, selection>>

Process(rp) == ProcessVars(rp, FALSE) /\ UNCHANGED <<ref, refLog>>

\* the same, keeping the stream and the on-events since the last start
ProcessLogged(rp) == ProcessVars(rp, TRUE) /\ UNCHANGED <<ref, refLog>>

\* parameterValueChanged("constant_threshold")
SetConstantThresh(v) ==
    /\ constantThresh' = v
    /\ constant_threshold' = v
    /\ ObserveVars("constant_threshold", LastN(preIn \o lastBuf, historyLength),
                                         LastN(preTh \o lastThr, historyLength))
    /\ UNCHANGED <<inputChannel, eventChannelPtr, toggleThreshold, host>>
    /\ UNCHANGED <<posOn, negOn, eventDuration, timeout, useBufferEndMask,
                   bufferEndMaskMs, pastStrict, futureStrict, useJumpLimit, jumpLimit,
                   jumpLimitSleep, sampleRate, threshConfig, adaptive, learner,
                   spans, converted, internals, acquiring, startTs, ref, refLog>>

\* parameterValueChanged("past_span") and ("future_span")
spanChanged(newPast, newFuture) ==
    /\ pastSpan' = newPast
    /\ futureSpan' = newFuture
    /\ sampToReenable' = newPast + newFuture + 1
    /\ inputHistory' = resize(reset(inputHistory), newPast + newFuture + 2)
    /\ thresholdHistory' = resize(reset(thresholdHistory), newPast + newFuture + 2)
    /\ pastSamplesAbove' = 0
    /\ futureSamplesAbove' = 0
    /\ UNCHANGED <<params, converted, jumpLimitElapsed, turnoffEvent, acquiring, startTs,
                   ref, refLog>>

SetPastSpan(v) ==
    /\ spanChanged(v, futureSpan)
    /\ Observe("past_span", Fill(DefaultElement, v + futureSpan + 2),
                            Fill(DefaultElement, v + futureSpan + 2))

SetFutureSpan(v) ==
    /\ spanChanged(pastSpan, v)
    /\ Observe("future_span", Fill(DefaultElement, pastSpan + v + 2),
                              Fill(DefaultElement, pastSpan + v + 2))

StartVars ==
    /\ ~acquiring
    /\ acquiring' = TRUE
    /\ jumpLimitElapsed' = floatOf(jumpLimitSleep * sampleRate) \div Scale
    /\ updateSampleRateDependentValues(eventDuration, timeout, bufferEndMaskMs)
    /\ Fold("start")
    /\ UNCHANGED <<params, spans, sampToReenable, pastSamplesAbove, futureSamplesAbove,
                   inputHistory, thresholdHistory, turnoffEvent, startTs>>

StartAcquisition == StartVars /\ UNCHANGED <<ref, refLog>>

\* a stop that leaves the warm-up counter and the pending off-event as they are
StopKeepsPending ==
    /\ acquiring
    /\ acquiring' = FALSE
    /\ Fold("stop")
    /\ UNCHANGED <<params, spans, converted, internals, startTs, ref, refLog>>

StopAcquisition ==
    /\ acquiring
    /\ acquiring' = FALSE
    /\ sampToReenable' = warmUp
    /\ turnoffEvent' = <<>>
    /\ Fold("stop")
    /\ UNCHANGED <<params, spans, converted, jumpLimitElapsed, pastSamplesAbove,
                   futureSamplesAbove, inputHistory, thresholdHistory, startTs,
                   ref, refLog>>

\* parameterValueChanged for a parameter that only stores its value
paramChanged(op) ==
    /\ Fold(op)
    /\ UNCHANGED <<spans, converted, internals, acquiring, startTs, ref, refLog>>

\* parameterValueChanged("threshold_type"), for the types CONSTANT and ADAPTIVE
SetThresholdType(type) ==
    /\ thresholdType' = type
    /\ IF type = "ADAPTIVE"
       THEN /\ currLRDivisor' = restartAdaptiveThreshold.currLRDivisor
            /\ currLearningRate' = restartAdaptiveThreshold.currLearningRate
            /\ currMinLearningRate' = restartAdaptiveThreshold.currMinLearningRate
       ELSE UNCHANGED learner
    /\ paramChanged("threshold_type")
    /\ UNCHANGED <<constantThresh, detection, randomThreshRange, thresholdChannel,
                   adaptive>>

\* CrossingDetector::updateSettings: the settings of the stream are given
\* their event channel, then parameterValueChanged is called for 26
\* parameters with the values they hold.  Each member takes the value of its
\* parameter again: constantThresh, which the learner has moved, returns to
\* the value of "constant_threshold"; "threshold_type" restarts the learner
\* when the type is ADAPTIVE; "future_span" and "past_span" each reset and
\* resize both histories, the warm-up and the counters; "Timeout_ms",
\* "buffer_end_mask" and "event_duration" recompute the durations in samples.
UpdateSettings ==
    /\ eventChannelPtr' = TRUE
    /\ IF thresholdType = "ADAPTIVE"
       THEN /\ currLRDivisor' = restartAdaptiveThreshold.currLRDivisor
            /\ currLearningRate' = restartAdaptiveThreshold.currLearningRate
            /\ currMinLearningRate' = restartAdaptiveThreshold.currMinLearningRate
       ELSE UNCHANGED learner
    /\ constantThresh' = constant_threshold
    /\ sampToReenable' = warmUp
    /\ inputHistory' = resize(reset(resize(reset(inputHistory), historyLength)),
                              historyLength)
    /\ thresholdHistory' = resize(reset(resize(reset(thresholdHistory), historyLength)),
                                  historyLength)
    /\ pastSamplesAbove' = 0
    /\ futureSamplesAbove' = 0
    /\ updateSampleRateDependentValues(eventDuration, timeout, bufferEndMaskMs)
    /\ ObserveVars("updateSettings", Fill(DefaultElement, historyLength),
                                     Fill(DefaultElement, historyLength))
    /\ UNCHANGED <<detection, threshConfig, adaptive, spans, jumpLimitElapsed,
                   turnoffEvent, acquiring, startTs, ref, refLog, inputChannel,
                   toggleThreshold, host, constant_threshold>>

\* the restart requested by hand
RestartAdaptiveThreshold ==
    /\ currLRDivisor' = restartAdaptiveThreshold.currLRDivisor
    /\ currLearningRate' = restartAdaptiveThreshold.currLearningRate
    /\ currMinLearningRate' = restartAdaptiveThreshold.currMinLearningRate
    /\ paramChanged("restart")
    /\ UNCHANGED <<constantThresh, detection, threshConfig, adaptive>>

\* parameterValueChanged("adapt_threshold_paused")
SetAdaptThreshPaused(b) ==
    /\ adaptThreshPaused' = b
    /\ paramChanged("adapt_threshold_paused")
    /\ UNCHANGED <<constantThresh, detection, threshConfig, learner, indicatorChannel,
                   indicatorTarget, useIndicatorRange, indicatorRange,
                   startLearningRate, minLearningRate, decayRate, useAdaptThreshRange,
                   adaptThreshRange>>

\* parameterValueChanged("min_learning_rate")
SetMinLearningRate(v) ==
    /\ minLearningRate' = v
    /\ paramChanged("min_learning_rate")
    /\ UNCHANGED <<constantThresh, detection, threshConfig, learner, indicatorChannel,
                   indicatorTarget, useIndicatorRange, indicatorRange,
                   startLearningRate, decayRate, adaptThreshPaused,
                   useAdaptThreshRange, adaptThreshRange>>

\* parameterValueChanged("indicator_channel"), with totalEventChannels event
\* channels; hasSettings is whether the parameter is one of a stream (its
\* stream id is not 0) that has settings, and nothing is written otherwise
SetIndicatorChannel(v, totalEventChannels, hasSettings) ==
    /\ indicatorChannel' = IF ~hasSettings THEN indicatorChannel
                           ELSE IF v > -1 /\ v < totalEventChannels THEN v ELSE -1
    /\ paramChanged("indicator_channel")
    /\ UNCHANGED <<constantThresh, detection, threshConfig, learner, indicatorTarget,
                   useIndicatorRange, indicatorRange, startLearningRate,
                   minLearningRate, decayRate, adaptThreshPaused, useAdaptThreshRange,
                   adaptThreshRange>>

\* parameterValueChanged("event_duration")
SetEventDuration(v) ==
    /\ eventDuration' = v
    /\ updateSampleRateDependentValues(v, timeout, bufferEndMaskMs)
    /\ Fold("event_duration")
    /\ UNCHANGED <<constantThresh, posOn, negOn, timeout, useBufferEndMask,
                   bufferEndMaskMs, pastStrict, futureStrict, useJumpLimit, jumpLimit,
                   jumpLimitSleep, sampleRate, threshConfig, adaptive, learner,
                   spans, internals, acquiring, startTs, ref, refLog>>

\* parameterValueChanged("Timeout_ms")
SetTimeout(v) ==
    /\ timeout' = v
    /\ updateSampleRateDependentValues(eventDuration, v, bufferEndMaskMs)
    /\ Fold("Timeout_ms")
    /\ UNCHANGED <<constantThresh, posOn, negOn, eventDuration, useBufferEndMask,
                   bufferEndMaskMs, pastStrict, futureStrict, useJumpLimit, jumpLimit,
                   jumpLimitSleep, sampleRate, threshConfig, adaptive, learner,
                   spans, internals, acquiring, startTs, ref, refLog>>

\* parameterValueChanged("use_buffer_end_mask")
SetUseBufferEndMask(b) ==
    /\ useBufferEndMask' = b
    /\ paramChanged("use_buffer_end_mask")
    /\ UNCHANGED <<constantThresh, posOn, negOn, eventDuration, timeout,
                   bufferEndMaskMs, pastStrict, futureStrict, useJumpLimit, jumpLimit,
                   jumpLimitSleep, sampleRate, threshConfig, adaptive, learner>>

\* parameterValueChanged("buffer_end_mask")
SetBufferEndMask(v) ==
    /\ bufferEndMaskMs' = v
    /\ updateSampleRateDependentValues(eventDuration, timeout, v)
    /\ Fold("buffer_end_mask")
    /\ UNCHANGED <<constantThresh, posOn, negOn, eventDuration, timeout,
                   useBufferEndMask, pastStrict, futureStrict, useJumpLimit, jumpLimit,
                   jumpLimitSleep, sampleRate, threshConfig, adaptive, learner,
                   spans, internals, acquiring, startTs, ref, refLog>>

\* parameterValueChanged("indicator_target")
SetIndicatorTarget(v) ==
    /\ indicatorTarget' = v
    /\ paramChanged("indicator_target")
    /\ UNCHANGED <<constantThresh, detection, threshConfig, learner, indicatorChannel,
                   useIndicatorRange, indicatorRange, startLearningRate,
                   minLearningRate, decayRate, adaptThreshPaused, useAdaptThreshRange,
                   adaptThreshRange>>

\* parameterValueChanged("use_indicator_range")
SetUseIndicatorRange(b) ==
    /\ useIndicatorRange' = b
    /\ paramChanged("use_indicator_range")
    /\ UNCHANGED <<constantThresh, detection, threshConfig, learner, indicatorChannel,
                   indicatorTarget, indicatorRange, startLearningRate,
                   minLearningRate, decayRate, adaptThreshPaused, useAdaptThreshRange,
                   adaptThreshRange>>

\* parameterValueChanged("indicator_range_start") and ("indicator_range_end")
indicatorRangeChanged(op, range) ==
    /\ indicatorRange' = range
    /\ paramChanged(op)
    /\ UNCHANGED <<constantThresh, detection, threshConfig, learner, indicatorChannel,
                   indicatorTarget, useIndicatorRange, startLearningRate,
                   minLearningRate, decayRate, adaptThreshPaused, useAdaptThreshRange,
                   adaptThreshRange>>

SetIndicatorRangeStart(v) ==
    indicatorRangeChanged("indicator_range_start", <<v, indicatorRange[2]>>)

SetIndicatorRangeEnd(v) ==
    indicatorRangeChanged("indicator_range_end", <<indicatorRange[1], v>>)

\* parameterValueChanged("use_adapt_threshold_range")
SetUseAdaptThreshRange(b) ==
    /\ useAdaptThreshRange' = b
    /\ paramChanged("use_adapt_threshold_range")
    /\ UNCHANGED <<constantThresh, detection, threshConfig, learner, indicatorChannel,
                   indicatorTarget, useIndicatorRange, indicatorRange,
                   startLearningRate, minLearningRate, decayRate, adaptThreshPaused,
                   adaptThreshRange>>

\* parameterValueChanged("adapt_threshold_range_end")
SetAdaptThreshRangeEnd(v) ==
    /\ adaptThreshRange' = <<adaptThreshRange[1], v>>
    /\ paramChanged("adapt_threshold_range_end")
    /\ UNCHANGED <<constantThresh, detection, threshConfig, learner, indicatorChannel,
                   indicatorTarget, useIndicatorRange, indicatorRange,
                   startLearningRate, minLearningRate, decayRate, adaptThreshPaused,
                   useAdaptThreshRange>>


(***************************************************************************)
(* CrossingDetector::process on a whole continuous buffer.  The global     *)
(* indices of the continuous channels of the stream are their indices      *)
(* within the stream, and the buffer holds one block of each.              *)
(* checkForEvents hands handleTTLEvent the indicator events that arrived   *)
(* (found), then the selection is checked, the turn-off event delivered,   *)
(* the threshold channel looked up, the samples of the input channel       *)
(* evaluated, and the thresholds subtracted from the input channel when    *)
(* toggleThreshold is set.                                                 *)
(***************************************************************************)
HostValues == {-5, 5}

\* the learner is followed while the threshold is within AdaptMaxThresh of 0
\* or of AdaptFar, a threshold of 8388608.0, where adjacent floats are 0.5
\* apart below and 1.0 apart above, and the divisor within AdaptMaxDivisor
AdaptMaxThresh == 4

AdaptMaxDivisor == 30

AdaptFar == 2 ^ 23 * Scale

\* GenericProcessor::checkForEvents hands every event of the block, in the
\* order of arrival, to handleTTLEvent
RECURSIVE handleTTLEvents(_, _)
handleTTLEvents(l, found) ==
    IF found = <<>> THEN l
    ELSE handleTTLEvents(handleTTLEvent(l, Head(found)), Tail(found))

\* the learner before the first event of found and after each of them
RECURSIVE handled(_, _)
handled(l, found) ==
    IF found = <<>> THEN <<l>>
    ELSE <<l>> \o handled(handleTTLEvent(l, Head(found)), Tail(found))

\* "if (settings[streamId]->indicatorChannel > -1) checkForEvents()"
checkForEvents(found) ==
    IF indicatorChannel > -1 THEN handleTTLEvents(learnerNow, found) ELSE learnerNow

\* "inputChannel < 0 || inputChannel >= continuousBuffer.getNumChannels()
\*  || !eventChannelPtr"
invalidSelection(nChannels) ==
    inputChannel < 0 \/ inputChannel >= nChannels \/ ~eventChannelPtr

\* "wpThresh[i] -= pThresh[i]" on the input channel of the buffer, a
\* subtraction of floats
toggled(buf, pThresh) ==
    [buf EXCEPT ![inputChannel + 1] =
        [i \in 1..Len(buf[inputChannel + 1]) |->
            floatOf(buf[inputChannel + 1][i] - pThresh[i])]]

\* the loop reads the threshold and the rate of before the events
AfterEventsStale(l) == Self

\* the detector after checkForEvents, whose result is l
afterEvents(l) ==
    [Self EXCEPT !.constantThresh = l.constantThresh,
                 !.currLearningRate = l.currLearningRate]

\* the call from the turn-off event to the toggle, reading the thresholds
\* of type CHANNEL from rpThreshChan
evaluate(l, buf, rpThreshChan) ==
    {[ended |-> "completed", learner |-> l, d |-> r,
      after |-> IF toggleThreshold THEN toggled(buf, r.pThresh) ELSE buf] :
       r \in {process([afterEvents(l) EXCEPT !.rpThreshChan = rpThreshChan],
                      buf[inputChannel + 1], startTs)}}

\* The outcomes of the call after checkForEvents.
\* getContinuousChannels()[thresholdChannel] is a null pointer when
\* thresholdChannel is no channel of the stream, and "->getGlobalIndex()"
\* dereferences it in every threshold type, after the turn-off event of the
\* call before was delivered: the call faults there, or goes on with
\* an index that was never read, which only the type CHANNEL uses, to read
\* its thresholds from wherever it points.
outcomes(l, buf) ==
    IF invalidSelection(Len(buf))
    THEN {[ended |-> "skipped", learner |-> l, d |-> afterEvents(l), after |-> buf]}
    ELSE IF thresholdChannel < Len(buf)
    THEN evaluate(l, buf, buf[thresholdChannel + 1])
    ELSE {[ended |-> "fault", learner |-> l,
           d |-> turnoffPending(afterEvents(l), Len(buf[inputChannel + 1]), startTs),
           after |-> buf]}
         \cup UNION {evaluate(l, buf, thr) :
                       thr \in IF thresholdType = "CHANNEL"
                               THEN [1..Len(buf[1]) -> HostValues] ELSE {<<>>}}

processBuffer(buf, found) == UNION {outcomes(l, buf) : l \in {checkForEvents(found)}}

\* the host calls process with the next block of every channel and the
\* events found that arrived with it; the steps of the learner are taken
\* for the values that keep them exact, the threshold within AdaptMaxThresh
\* of 0 or of AdaptFar, and the divisor within AdaptMaxDivisor
HostProcess(buf, found) ==
    /\ acquiring
    /\ indicatorChannel > -1 => exactSteps(learnerNow, found)
    /\ \E o \in processBuffer(buf, found) :
         /\ \/ absVal(o.learner.constantThresh) <= AdaptMaxThresh
            \/ absVal(o.learner.constantThresh - AdaptFar) <= AdaptMaxThresh
         /\ o.learner.currLRDivisor <= AdaptMaxDivisor
         /\ constantThresh' = o.learner.constantThresh
         /\ currLRDivisor' = o.learner.currLRDivisor
         /\ currLearningRate' = o.learner.currLearningRate
         /\ sampToReenable' = o.d.sampToReenable
         /\ pastSamplesAbove' = o.d.pastSamplesAbove
         /\ futureSamplesAbove' = o.d.futureSamplesAbove
         /\ jumpLimitElapsed' = o.d.jumpLimitElapsed
         /\ inputHistory' = o.d.inputHistory
         /\ thresholdHistory' = o.d.thresholdHistory
         /\ turnoffEvent' = o.d.turnoffEvent
         /\ lastThr' = o.d.pThresh
         /\ events' = o.d.out
         /\ voteLog' = o.d.votes
         /\ trigLog' = o.d.trig
         /\ lastBuf' = IF o.ended = "completed" THEN buf[inputChannel + 1] ELSE <<>>
         /\ host' = [before |-> buf, after |-> o.after,
                     found |-> IF indicatorChannel > -1 THEN found ELSE <<>>,
                     steps |-> handled(learnerNow,
                                       IF indicatorChannel > -1 THEN found ELSE <<>>),
                     ended |-> o.ended]
    /\ startTs' = startTs + Len(buf[1])
    /\ lastOp' = "process" /\ lastStart' = startTs
    /\ preIn' = LastN(preIn \o lastBuf, historyLength)
    /\ preTh' = LastN(preTh \o lastThr, historyLength)
    /\ UNCHANGED <<detection, threshConfig, adaptive, currMinLearningRate, spans,
                   converted, acquiring, stream, onLog, ref, refLog, live, call,
                   inputChannel, eventChannelPtr, toggleThreshold, constant_threshold>>

(***************************************************************************)
(* Specification of the detector under voting: rising detection with any   *)
(* spans, span and threshold changes at any time, over two-valued samples. *)
(***************************************************************************)
Bits == {0, 1}

Init == InitWith(0, TRUE, FALSE, 1, 0, 0, 0, Scale, Scale, FALSE, 5, 1000)

\* the host delivers at most MaxSamples samples
VoteProcess ==
    \E rp \in BuffersOver(Bits) : startTs + Len(rp) <= MaxSamples /\ Process(rp)

Next ==
    \/ VoteProcess
    \/ \E v \in 0..MaxSpan : SetPastSpan(v)
    \/ \E v \in 0..MaxSpan : SetFutureSpan(v)
    \/ \E v \in Bits : SetConstantThresh(v)
    \/ UpdateSettings
    \/ StartAcquisition
    \/ StopAcquisition

Spec == Init /\ [][Next]_vars

(***************************************************************************)
(* The samples and realized thresholds around the last process call, by    *)
(* index relative to the start of its buffer: negative indices are the     *)
(* samples that preceded the call (0 after a reset of the histories).      *)
(***************************************************************************)
lastN == Len(lastBuf)

ObsIn(j) == IF j < 0 THEN preIn[historyLength + j + 1] ELSE lastBuf[j + 1]

ObsTh(j) == IF j < 0 THEN preTh[historyLength + j + 1] ELSE lastThr[j + 1]

ObsAbove(j) == ObsIn(j) > ObsTh(j)

CountAbove(lo, hi) == Cardinality({j \in lo..hi : ObsAbove(j)})

\* C3: after the voting update for sample i of a buffer (candidate
\* c = i - futureSpan), pastSamplesAbove is the number of samples above their
\* threshold among the indices c-1-pastSpan .. c-2 and futureSamplesAbove the
\* number among c+1 .. c+futureSpan, whatever the buffer lengths and the span
\* and threshold changes between the calls.
C3_VotingCountersExact ==
    lastOp = "process" =>
        \A i \in 0..(lastN - 1) :
            LET c == i - futureSpan IN
            /\ voteLog[i + 1].past = CountAbove(c - 1 - pastSpan, c - 2)
            /\ voteLog[i + 1].future = CountAbove(c + 1, c + futureSpan)

\* a call on a buffer shorter than the histories, with samples above threshold
\* counted in both windows and one of them read from the history
C3_Witness ==
    /\ lastOp = "process"
    /\ lastN < historyLength
    /\ pastSamplesAbove > 0 /\ futureSamplesAbove > 0
    /\ \E j \in 1..historyLength : preIn[j] > preTh[j]
    /\ \E j \in 1..historyLength : preTh[j] # constantThresh

AllDefault(ca) == \A k \in 1..size(ca) : ca.array[k] = DefaultElement

\* C10: both histories always have pastSpan + futureSpan + 2 elements, and a
\* change of pastSpan or futureSpan leaves, in the same step, both counters 0,
\* both histories filled with 0 and sampToReenable = pastSpan + futureSpan + 1.
C10_SpanChangeResets ==
    /\ size(inputHistory) = pastSpan + futureSpan + 2
    /\ size(thresholdHistory) = pastSpan + futureSpan + 2
    /\ lastOp \in {"past_span", "future_span"} =>
          /\ pastSamplesAbove = 0 /\ futureSamplesAbove = 0
          /\ AllDefault(inputHistory) /\ AllDefault(thresholdHistory)
          /\ sampToReenable = pastSpan + futureSpan + 1

\* a span changed during acquisition, after samples were processed
C10_Witness ==
    /\ lastOp = "past_span" /\ acquiring /\ startTs > 2
    /\ pastSpan = 1 /\ futureSpan = 1


(***************************************************************************)
(* Specification of the event scheduler: both directions on two-valued     *)
(* samples around the threshold 0, with the durations and timeouts below   *)
(* (in ms at 1000 Hz, so in samples), stop and start at any time.          *)
(***************************************************************************)
SchedSamples == 6

SchedDurations == {0, 1, 3}

SchedTimeouts == {0, 2}

SchedInit ==
    \E dur \in SchedDurations, tout \in SchedTimeouts, fs \in {0, 1} :
        InitWith(0, TRUE, TRUE, dur, tout, 0, fs, Scale, Scale, FALSE, 5, 1000)

SchedProcess ==
    \E rp \in BuffersOver(Bits) : startTs + Len(rp) <= SchedSamples /\ ProcessLogged(rp)

SchedNext ==
    \/ SchedProcess
    \/ UpdateSettings
    \/ StartAcquisition
    \/ StopAcquisition

SpecSched == SchedInit /\ [][SchedNext]_vars

\* C2: after an on-event whose candidate is sample k, no on-event is emitted
\* for a candidate k' < k + 1 + timeoutSamp, however the samples are split
\* into buffers (onLog holds the on-events since the last start).
C2_NoEventInTimeout ==
    \A a \in 1..Len(onLog) : \A b \in (a + 1)..Len(onLog) :
        onLog[b].cross >= onLog[a].cross + 1 + timeoutSamp

\* two on-events exactly timeoutSamp + 1 samples apart, emitted in different calls
C2_Witness ==
    /\ Len(onLog) >= 2 /\ timeoutSamp = 2
    /\ onLog[2].cross = onLog[1].cross + 1 + timeoutSamp
    /\ lastStart > onLog[1].cross
    /\ trigLog # <<>>

\* C7 (as claimed): every event emitted by a process call over n samples has
\* its offset in [0, n).
C7_OffsetsInsideBuffer ==
    lastOp = "process" =>
        \A k \in 1..Len(events) : events[k].offset >= 0 /\ events[k].offset < lastN


\* the turn-off event of an on-event of the last call, by its trigLog entry
OffEventOf(t) ==
    [on |-> FALSE,
     ts |-> lastStart + jmax(t.cross - lastStart, 0) + eventDurationSamp,
     cross |-> t.cross, level |-> t.postVal, thresh |-> ObsTh(t.cross - lastStart),
     dir |-> t.dir, lr |-> 0]

OffOffsetOf(t) == jmax(t.cross - lastStart, 0) + eventDurationSamp

Emitted(evs, e) == \E k \in 1..Len(evs) : evs[k].ev = e

PendingDue(p, bufTs, n) == p.ts >= bufTs /\ p.ts < bufTs + n

\* an off-event past the end of the buffer is not emitted by the call, and the
\* last such one of the call is the pending turn-off
C6_HeldBack ==
    lastOp = "process" =>
        \A k \in 1..Len(trigLog) :
            OffOffsetOf(trigLog[k]) > lastN =>
                /\ ~Emitted(events, OffEventOf(trigLog[k]))
                /\ k = Len(trigLog) => turnoffEvent = <<OffEventOf(trigLog[k])>>

\* a process call that finds a pending turn-off p: if the buffer holds p.ts, p
\* is emitted first, once, at offset p.ts - bufferStart and leaves the slot;
\* otherwise p is not emitted and stays pending unless the off-event of an
\* on-event of this call took the slot
C6_PendingStep ==
    (lastOp' = "process" /\ turnoffEvent # <<>>) =>
        LET p == turnoffEvent[1]
            n == Len(lastBuf')
        IN  IF PendingDue(p, startTs, n)
            THEN /\ events'[1] = [ev |-> p, offset |-> p.ts - startTs]
                 /\ \A k \in 2..Len(events') : events'[k].ev # p
                 /\ turnoffEvent' # <<p>>
            ELSE /\ ~Emitted(events', p)
                 /\ \/ turnoffEvent' = <<p>>
                    \/ /\ trigLog' # <<>>
                       /\ turnoffEvent' # <<>>
                       /\ turnoffEvent'[1].cross = trigLog'[Len(trigLog')].cross

\* C6 (amended): an off-event whose offset exceeds the buffer length is not
\* emitted during that call but held as PendingTurnoff; unless the off-event of
\* a later on-event overwrites the slot (or acquisition stops), it is emitted
\* exactly once, by the call whose buffer contains its timestamp, at offset
\* timestamp - bufferStart, and then leaves the slot; a buffer that does not
\* contain the timestamp emits nothing for it.
C6_DeferredTurnoff == [][C6_PendingStep]_vars /\ []C6_HeldBack

\* a turn-off held over from an earlier call, emitted inside a later buffer
C6_Witness ==
    /\ lastOp = "process"
    /\ events # <<>>
    /\ ~events[1].ev.on
    /\ events[1].ev.cross < lastStart
    /\ events[1].offset = events[1].ev.ts - lastStart
    /\ events[1].offset > 0
    /\ turnoffEvent = <<>>

\* C6 (as claimed): a buffer that does not contain the timestamp of the
\* pending turn-off leaves it pending.
C6_LeftPending ==
    [][(lastOp' = "process" /\ turnoffEvent # <<>>
        /\ ~PendingDue(turnoffEvent[1], startTs, Len(lastBuf')))
       => turnoffEvent' = turnoffEvent]_vars


(***************************************************************************)
(* Specification of the detector on a ramp: rising detection without       *)
(* voting, a constant threshold below RampMax, and a strictly increasing   *)
(* stream of samples in 0..RampMax delivered in buffers of any lengths     *)
(* after acquisition starts.                                               *)
(***************************************************************************)
RampMax == 4

RampInit ==
    \E thr \in 0..(RampMax - 1) :
        InitWith(thr, TRUE, FALSE, 1, 0, 0, 0, Scale, Scale, FALSE, 5, 1000)

StrictlyIncreasing(seq) == \A k \in 1..(Len(seq) - 1) : seq[k] < seq[k + 1]

RampProcess ==
    \E rp \in BuffersOver(0..RampMax) :
        /\ StrictlyIncreasing(stream \o rp)
        /\ ProcessLogged(rp)

RampNext ==
    \/ RampProcess
    \/ StartAcquisition

SpecRamp == RampInit /\ [][RampNext]_vars

\* the sample number of the first sample of the stream
StreamStart == startTs - Len(stream)

\* the index in the stream (from 0) of its first sample above the threshold
FirstAbove == CHOOSE k \in 0..(Len(stream) - 1) :
                  /\ stream[k + 1] > constantThresh
                  /\ \A j \in 0..(k - 1) : stream[j + 1] <= constantThresh

\* C1 (as claimed): a strictly increasing stream that begins at or below the
\* threshold and has reached a value above it has produced exactly one
\* on-event, a rising one whose crossing is the first sample above the
\* threshold, whatever the index k >= 1 of that sample and the buffers.
C1_RampSingleEvent ==
    (/\ stream # <<>>
     /\ stream[1] <= constantThresh
     /\ stream[Len(stream)] > constantThresh)
    => onLog = <<[cross |-> StreamStart + FirstAbove, dir |-> 1]>>

\* what the code does: the same, when the first sample above the threshold is
\* not the second sample of the stream; no event at all when it is
RampCrossesLater ==
    (/\ stream # <<>>
     /\ stream[1] <= constantThresh
     /\ stream[Len(stream)] > constantThresh)
    => onLog = IF FirstAbove = 1 THEN <<>>
               ELSE <<[cross |-> StreamStart + FirstAbove, dir |-> 1]>>


(***************************************************************************)
(* Specification of two detectors on one stream: the detector receives the *)
(* stream in buffers of any lengths, the second detector (ref) receives    *)
(* the same samples one per process call.  Both have the same parameters:  *)
(* threshold 0, both directions, spans 0 or 1, timeout 0 or 2 samples.     *)
(***************************************************************************)
PartSamples == 5

PartInit ==
    \E tout \in SchedTimeouts, ps \in 0..MaxSpan, fs \in 0..MaxSpan :
        InitWith(0, TRUE, TRUE, 1, tout, ps, fs, Scale, Scale, FALSE, 5, 1000)

RECURSIVE FeedSingly(_, _, _, _)
\* process called on rp[k], rp[k+1], ... as buffers of one sample each
FeedSingly(d, rp, k, bufTs) ==
    IF k > Len(rp) THEN d
    ELSE FeedSingly(process([d EXCEPT !.pThresh = <<>>, !.out = <<>>, !.votes = <<>>],
                            <<rp[k]>>, bufTs + k - 1),
                    rp, k + 1, bufTs)

ProcessBoth(rp) ==
    /\ ProcessVars(rp, TRUE)
    /\ \E r \in {FeedSingly([ref EXCEPT !.constantThresh = constantThresh,
                                         !.currLearningRate = currLearningRate],
                            rp, 1, startTs)} :
         /\ ref' = Rest(r)
         /\ refLog' = refLog \o Crossings(r.trig)

StartBoth ==
    /\ StartVars
    /\ ref' = [ref EXCEPT !.jumpLimitElapsed = floatOf(jumpLimitSleep * sampleRate) \div Scale]
    /\ refLog' = <<>>

PartProcess ==
    \E rp \in BuffersOver(Bits) : startTs + Len(rp) <= PartSamples /\ ProcessBoth(rp)

PartNext ==
    \/ PartProcess
    \/ StartBoth

SpecPart == PartInit /\ [][PartNext]_vars

\* C4 (as claimed): the on-events of the stream, by crossing sample number and
\* direction, are those of the same stream delivered one sample per call, for
\* every pastSpan and futureSpan.
C4_PartitionIndependent == onLog = refLog

\* what the code does: the on-events do not depend on the buffers when
\* futureSpan = 0
PartitionIndependentNoFuture == futureSpan = 0 => onLog = refLog


\* candidate c of the last call (index relative to its buffer) passes the test
\* of a crossing in the given direction: the samples before and at c are on
\* opposite sides of their thresholds, both voting windows are satisfied, the
\* warm-up and the timeout of every earlier on-event are over, and so is the
\* sleep of the jump limit
Qualifies(c, direction) ==
    /\ IF direction THEN posOn ELSE negOn
    /\ direction # ObsAbove(c - 1)
    /\ direction = ObsAbove(c)
    /\ pastSat(direction, CountAbove(c - 1 - pastSpan, c - 2))
    /\ futureSat(direction, CountAbove(c + 1, c + futureSpan))
    /\ lastStart + c - StreamStart >= warmUp
    /\ \A a \in 1..Len(onLog) :
           onLog[a].cross < lastStart + c =>
               onLog[a].cross + 1 + timeoutSamp <= lastStart + c
    /\ ~sleepNotElapsed(voteLog[c + futureSpan + 1].elapsed)

\* C5 (as claimed): with futureSpan > 0, a candidate c < 0 of a call (one of
\* the last futureSpan samples of the previous buffer), tested once its
\* look-ahead samples have arrived, gives when it passes an on-event at offset
\* 0 of this buffer whose crossing point is the sample number of the crossing.
C5_DeferredCandidateFires ==
    (lastOp = "process" /\ futureSpan > 0) =>
        \A c \in (-futureSpan)..(-1) :
            (c + futureSpan < lastN /\ (Qualifies(c, TRUE) \/ Qualifies(c, FALSE))) =>
                \E k \in 1..Len(events) :
                    /\ events[k].ev.on
                    /\ events[k].offset = 0
                    /\ events[k].ev.cross = lastStart + c

\* what the code does: no call emits an on-event for a candidate before its
\* buffer
NoDeferredOnEvent ==
    \A k \in 1..Len(events) : events[k].ev.on => events[k].ev.cross >= lastStart


(***************************************************************************)
(* Specification of the detector under strict voting: pastSpan = 4 with    *)
(* pastStrict 1.0 or 0.5, futureSpan 0 or 1, both directions, two-valued   *)
(* samples around the threshold 0, no timeout.                             *)
(***************************************************************************)
StrictSamples == 8

StrictInit ==
    \E pstr \in {Scale \div 2, Scale}, fs \in 0..1 :
        InitWith(0, TRUE, TRUE, 0, 0, 4, fs, pstr, Scale, FALSE, 5, 1000)

StrictProcess ==
    \E rp \in BuffersOver(Bits) : startTs + Len(rp) <= StrictSamples /\ Process(rp)

StrictNext ==
    \/ StrictProcess
    \/ StartAcquisition

SpecStrict == StrictInit /\ [][StrictNext]_vars

\* the samples above their threshold in the past window of candidate c of the
\* last call (c-1-pastSpan .. c-2) and in its future window (c+1 .. c+futureSpan)
PastAbove(c) == CountAbove(c - 1 - pastSpan, c - 2)

FutureAbove(c) == CountAbove(c + 1, c + futureSpan)

\* C8: an on-event is emitted only with the votes of both windows: a rising
\* one only if at least ceil(pastSpan * pastStrict) samples of the past window
\* are at or below their thresholds and at least ceil(futureSpan *
\* futureStrict) of the future window are above, a falling one mirrored; with
\* pastSpan = 4 and pastStrict = 1.0 a rising on-event needs pastSamplesAbove
\* = 0 (all 4 past samples at or below) and a falling one all 4 above.
C8_VotingStrictness ==
    lastOp = "process" =>
        \A k \in 1..Len(trigLog) :
            LET t == trigLog[k]
                c == t.cross - lastStart
            IN  /\ t.past = PastAbove(c) /\ t.future = FutureAbove(c)
                /\ t.dir = 1 =>
                      /\ pastSpan - PastAbove(c) >= CeilDiv(pastSpan * pastStrict, Scale)
                      /\ FutureAbove(c) >= CeilDiv(futureSpan * futureStrict, Scale)
                      /\ (pastSpan = 4 /\ pastStrict = Scale) =>
                             (t.past = 0 /\ \A j \in (c - 5)..(c - 2) : ~ObsAbove(j))
                /\ t.dir = 0 =>
                      /\ PastAbove(c) >= CeilDiv(pastSpan * pastStrict, Scale)
                      /\ futureSpan - FutureAbove(c) >= CeilDiv(futureSpan * futureStrict, Scale)
                      /\ (pastSpan = 4 /\ pastStrict = Scale) =>
                             (t.past = 4 /\ \A j \in (c - 5)..(c - 2) : ObsAbove(j))

\* a falling on-event with pastSpan = 4 and pastStrict = 1.0, after four
\* samples above the threshold, with a look-ahead sample
C8_Witness ==
    /\ lastOp = "process"
    /\ pastSpan = 4 /\ pastStrict = Scale /\ futureSpan = 1
    /\ \E k \in 1..Len(trigLog) : trigLog[k].dir = 0 /\ trigLog[k].past = 4


(***************************************************************************)
(* Specification of the detector with the jump limit: samples in           *)
(* 0..JumpMax, thresholds 0 and 1, jump limits 1 and 2, both directions,   *)
(* spans 0 or 1, a sleep of 0 or 1 sample after a rejected jump (the        *)
(* sample rate is Scale Hz, so that one unit of the sleep is one sample).   *)
(***************************************************************************)
JumpSamples == 5

JumpMax == 2

JumpInit ==
    \E thr \in 0..1, jl \in 1..2, sp \in 0..1 :
        InitWith(thr, TRUE, TRUE, 0, 0, sp, sp, Scale, Scale, TRUE, jl, Scale)

\* parameterValueChanged("jump_limit_sleep"), in units of 1/Scale of a second
SetJumpLimitSleep(v) ==
    /\ jumpLimitSleep' = v
    /\ Fold("jump_limit_sleep")
    /\ UNCHANGED <<constantThresh, posOn, negOn, eventDuration, timeout, useBufferEndMask,
                   bufferEndMaskMs, pastStrict, futureStrict, useJumpLimit, jumpLimit,
                   sampleRate, threshConfig, adaptive, learner, spans, converted,
                   internals, acquiring, startTs, ref, refLog>>

JumpSleep == ~acquiring /\ jumpLimitSleep = 0 /\ SetJumpLimitSleep(1)

JumpProcess ==
    \E rp \in BuffersOver(0..JumpMax) : startTs + Len(rp) <= JumpSamples /\ Process(rp)

JumpNext ==
    \/ JumpProcess
    \/ JumpSleep
    \/ StartAcquisition

SpecJump == JumpInit /\ [][JumpNext]_vars

\* C9: with the jump limit enabled, every on-event has |postVal - preVal| <
\* jumpLimit, where preVal and postVal are the samples before and at the
\* crossing, in either direction and whatever the voting counters.
C9_JumpLimitRejects ==
    (lastOp = "process" /\ useJumpLimit) =>
        \A k \in 1..Len(trigLog) :
            LET t == trigLog[k]
                c == t.cross - lastStart
            IN  /\ t.preVal = ObsIn(c - 1) /\ t.postVal = ObsIn(c)
                /\ absVal(ObsIn(c) - ObsIn(c - 1)) < jumpLimit

\* a rising crossing by a jump of 2 = jumpLimit, past the warm-up, that the
\* call passed over, in a call that gave an on-event for a jump of 1
C9_Witness ==
    /\ lastOp = "process" /\ useJumpLimit /\ jumpLimit = 2
    /\ \E j \in 1..(lastN - 1) :
           /\ lastBuf[j] = 0 /\ lastBuf[j + 1] = 2
           /\ lastStart + j >= warmUp
           /\ \A k \in 1..Len(trigLog) : trigLog[k].cross # lastStart + j
    /\ \E k \in 1..Len(trigLog) : absVal(trigLog[k].postVal - trigLog[k].preVal) = 1


\* C11: stopping and then starting acquisition, with no parameter change,
\* leaves sampToReenable = pastSpan + futureSpan + 1 and no pending off-event
\* whatever the state before the stop, and neither stop nor start changes
\* the threshold configuration (type, constant threshold, random range,
\* threshold channel).
C11_StopStartResets ==
    /\ [](lastOp = "start" => sampToReenable = warmUp /\ turnoffEvent = <<>>)
    /\ [][lastOp' \in {"stop", "start"} => UNCHANGED <<constantThresh, threshConfig>>]_vars

\* a restart after a run that ended one sample after a falling on-event of
\* three samples, in its timeout of two
C11_Witness ==
    /\ lastOp = "start" /\ startTs >= 3
    /\ eventDurationSamp = 3 /\ timeoutSamp = 2 /\ futureSpan = 0
    /\ Len(preIn) >= 2 /\ LastN(preIn, 2) = <<1, 0>>
    /\ sampToReenable = warmUp /\ turnoffEvent = <<>>

\* the offset in the last buffer of the candidate of its last on-event
LastCross == trigLog[Len(trigLog)].cross - lastStart

\* C12: sampToReenable is never negative; a process call over n samples
\* that emits no on-event takes it from s to max(0, s - n), and a call that
\* emits on-events leaves max(0, c + 1 + timeoutSamp - n), c being the offset
\* of the candidate of the last on-event.
C12_ReenableCountdown ==
    /\ [](sampToReenable >= 0)
    /\ [][lastOp' = "process" =>
            sampToReenable' = IF trigLog' = <<>>
                              THEN jmax(0, sampToReenable - Len(lastBuf'))
                              ELSE jmax(0, LastCross' + 1 + timeoutSamp - Len(lastBuf'))]_vars

\* a call of three samples with an on-event at its first sample and a
\* timeout of two, which leaves no sample to wait, in a later buffer of the run
C12_Witness ==
    /\ lastOp = "process" /\ Len(lastBuf) = 3 /\ timeoutSamp = 2
    /\ trigLog # <<>> /\ LastCross = 0
    /\ sampToReenable = 0 /\ lastStart >= 2

(***************************************************************************)
(* Specification of a continuing acquisition: the scheduler, never         *)
(* stopped, with the event duration changed at any time.  process depends  *)
(* on sample numbers only through their differences, so they are kept      *)
(* relative to the first sample of the next block: after each call the     *)
(* block's length is subtracted from the sample numbers held in the state. *)
(***************************************************************************)
\* the pending off-event, with sample numbers relative to the next block
Rebase(pending, nSamples) ==
    IF pending = <<>> THEN <<>>
    ELSE <<[pending[1] EXCEPT !.ts = @ - nSamples, !.cross = @ - nSamples]>>

\* some event given to addEvent is an off-event
EmitsOff(out) == \E k \in 1..Len(out) : ~out[k].ev.on

LiveProcess ==
    /\ acquiring
    /\ \E rp \in BuffersOver(Bits) :
         /\ lastOp' = "process" /\ lastStart' = startTs /\ lastBuf' = rp
         /\ \E r \in {process(Self, rp, startTs)} :
              /\ sampToReenable' = r.sampToReenable
              /\ pastSamplesAbove' = r.pastSamplesAbove
              /\ futureSamplesAbove' = r.futureSamplesAbove
              /\ jumpLimitElapsed' = r.jumpLimitElapsed
              /\ inputHistory' = r.inputHistory
              /\ thresholdHistory' = r.thresholdHistory
              /\ turnoffEvent' = Rebase(r.turnoffEvent, Len(rp))
              /\ lastThr' = r.pThresh
              /\ events' = r.out
              /\ voteLog' = r.votes
              /\ trigLog' = r.trig
              /\ live' = [block |-> ~live.block,
                           off |-> IF EmitsOff(r.out) THEN ~live.off ELSE live.off]
    /\ preIn' = LastN(preIn \o lastBuf, historyLength)
    /\ preTh' = LastN(preTh \o lastThr, historyLength)
    /\ UNCHANGED <<params, spans, converted, acquiring, startTs, stream, onLog,
                   ref, refLog, call, selection>>

LiveInit ==
    \E dur \in SchedDurations, tout \in SchedTimeouts :
        InitWith(0, TRUE, TRUE, dur, tout, 0, 0, Scale, Scale, FALSE, 5, 1000)

LiveNext ==
    \/ LiveProcess
    \/ StartAcquisition
    \/ \E v \in SchedDurations : SetEventDuration(v)

\* a step that delivers a block; under LiveNext these are the steps of
\* LiveProcess, which is enabled whenever acquiring is
Deliver ==
    /\ acquiring
    /\ \E off \in BOOLEAN : live' = [block |-> ~live.block, off |-> off]

\* while acquisition continues the host keeps calling process
SpecLive == LiveInit /\ [][LiveNext]_vars /\ WF_live(Deliver)

\* the last call emitted an on-event and no off-event at or after its
\* sample number
OnLeftOpen ==
    /\ lastOp = "process"
    /\ \E k \in 1..Len(events) :
         /\ events[k].ev.on
         /\ \A j \in 1..Len(events) : events[j].ev.on \/ events[j].ev.ts < events[k].ev.ts

\* C13 (as claimed): while acquisition continues, every emitted on-event is
\* eventually followed by an emitted off-event of at least its sample
\* number, also when the pending off-event is overwritten or eventDuration
\* changes: a call that leaves an on-event without such an off-event is
\* followed by a call that emits an off-event.
C13_OnEventTurnedOff ==
    \A b \in BOOLEAN : (OnLeftOpen /\ live.off = b) ~> (live.off # b)

\* what the code does: an on-event left without its off-event has one
\* pending, at or after its sample number
OpenHasPending ==
    OnLeftOpen =>
        /\ turnoffEvent # <<>>
        /\ \A k \in 1..Len(events) :
             events[k].ev.on => events[k].ev.ts - Len(lastBuf) <= turnoffEvent[1].ts

\* what the code does: the off-event follows when the timeout is never
\* shorter than the event duration, so that no on-event overwrites a pending
\* off-event
TurnedOffUnderTimeout ==
    [](timeoutSamp >= eventDurationSamp) => C13_OnEventTurnedOff

(***************************************************************************)
(* Specification of the adaptive threshold: process calls on samples of -5 *)
(* and 5 units, in both directions, that find no indicator event, one, or  *)
(* two (of value 1, -1 or 2, without a value, with a value that is no      *)
(* DOUBLE, or on another channel), with the threshold type, the pause and  *)
(* the indicator channel changed at any time.  In units of 1 / Scale the   *)
(* learning rates are 1 with the minimum 0, no decay and no indicator      *)
(* range, or 6 with the minimum 2, the decay 1.0 and the indicator range   *)
(* [-1.0, 1.0]; the threshold range, where used, is [-3, 3] units.         *)
(***************************************************************************)
AdaptSamples == 2

\* an event of channel chan with the metadata values meta
indicatorEvent(chan, meta) == [chan |-> chan, meta |-> meta]

\* the metadata of an event of value v
valued(v) == <<[double |-> TRUE, value |-> v]>>

\* events of every kind on channel 0, and one with a value on channel 1
AdaptEvents ==
    {indicatorEvent(0, meta) :
       meta \in {<<>>, <<[double |-> FALSE, value |-> Scale]>>,
                 <<[double |-> FALSE, value |-> Scale], [double |-> TRUE, value |-> Scale]>>,
                 valued(Scale), valued(-Scale), valued(2 * Scale)}}
      \cup {indicatorEvent(1, valued(Scale))}

\* the events a call finds: none, any one, or one of value 1.0 on channel 0
\* after one without a value, with a value that is no DOUBLE, on another
\* channel, or of value 1.0 on channel 0
AdaptFound ==
    {<<>>} \cup {<<e>> : e \in AdaptEvents}
           \cup {<<e, indicatorEvent(0, valued(Scale))>> :
                   e \in {x \in AdaptEvents : x.meta # valued(-Scale) /\ x.meta # valued(2 * Scale)}}

AdaptInit ==
    \E rates \in {<<1, 0, 0, FALSE>>, <<6, 2, Scale, TRUE>>}, utr \in BOOLEAN :
        /\ InitDetector(0, TRUE, TRUE, 1, 0, 0, 0, Scale, Scale, FALSE, 5, 1000)
        /\ InitAdaptive("CONSTANT", 0, rates[4], <<-Scale, Scale>>, rates[1], rates[2],
                        rates[3], utr, <<-3, 3>>, rates[2])

AdaptProcess ==
    \E rp \in BuffersOver(HostValues), found \in AdaptFound :
        startTs + Len(rp) <= AdaptSamples /\ HostProcess(<<rp>>, found)

AdaptNext ==
    \/ AdaptProcess
    \/ \E type \in {"CONSTANT", "ADAPTIVE"} : thresholdType # type /\ SetThresholdType(type)
    \/ \E b \in BOOLEAN : adaptThreshPaused # b /\ SetAdaptThreshPaused(b)
    \/ \E v \in {-1, 0, 1}, hasSettings \in BOOLEAN : SetIndicatorChannel(v, 1, hasSettings)
    \/ UpdateSettings
    \/ StartAcquisition

SpecAdapt == AdaptInit /\ [][AdaptNext]_vars

\* the learner is consistent: a positive divisor and non-negative rates
LearnerInRange == currLRDivisor >= Scale /\ currLearningRate >= 0

\* the step is a process call; found and steps below are what it records:
\* the indicator events it handed to handleTTLEvent, and constantThresh,
\* currLRDivisor and currLearningRate before the first and after each
CallStep == lastOp' = "process"

\* event k of the call is on the indicator channel
OnIndicator(k) == host'.found[k].chan = indicatorChannel

\* event k of the call carries a value: its first metadata value is a DOUBLE
HasPayload(k) == Len(host'.found[k].meta) > 0 /\ host'.found[k].meta[1].double

\* event k of the call is accepted: type ADAPTIVE, not paused, on the
\* indicator channel, with a value
Accepted(k) ==
    /\ thresholdType = "ADAPTIVE" /\ ~adaptThreshPaused
    /\ OnIndicator(k) /\ HasPayload(k)

\* the value of event k of the call
Payload(k) == host'.found[k].meta[1].value

\* the learner after the whole call
LearnerAfter ==
    [currLRDivisor |-> currLRDivisor', currLearningRate |-> currLearningRate',
     constantThresh |-> constantThresh']

\* C14: an accepted indicator event of value v performs one learner step,
\* in this order: err = errorFromTarget(v); currLRDivisor += decayRate;
\* currLearningRate = (currLearningRate - currMinLearningRate) /
\* currLRDivisor + currMinLearningRate, with the new divisor;
\* constantThresh -= currLearningRate * err, with the new rate, stored in the
\* float constantThresh; then, if the threshold range is in use,
\* constantThresh is wrapped into adaptThreshRange.  The steps of a process
\* call are those of the events it finds, one after the other from the
\* learner it starts with, and its samples, however many and whatever the
\* events they make it emit, change neither currLRDivisor nor
\* currLearningRate: the call ends with the learner its last event left, and
\* a call that finds no event leaves the learner as it was.
C14_LearnerStep ==
    [][CallStep =>
        /\ Len(host'.steps) = Len(host'.found) + 1
        /\ host'.steps[1] = learnerNow
        /\ \A k \in 1..Len(host'.found) :
             Accepted(k) =>
                LET l == host'.steps[k]
                    err == errorFromTarget(Payload(k)).value
                    divisor == l.currLRDivisor + decayRate
                    rate == ((l.currLearningRate - currMinLearningRate) * Scale)
                              \div divisor + currMinLearningRate
                    moved == floatOf(l.constantThresh - (rate * err) \div Scale)
                IN  host'.steps[k + 1] =
                       [currLRDivisor |-> divisor,
                        currLearningRate |-> rate,
                        constantThresh |->
                           IF useAdaptThreshRange
                           THEN toEquivalentInRange(moved, adaptThreshRange).value
                           ELSE moved]
        /\ LearnerAfter = host'.steps[Len(host'.steps)]
        /\ host'.found = <<>> => UNCHANGED <<currLRDivisor, currLearningRate>>
        /\ UNCHANGED currMinLearningRate]_vars

\* a call of two samples, whose second is a falling crossing that the call
\* reports, found one accepted event of value 1.0 with the rate 6, the
\* minimum 2 (units of 1 / Scale), the decay 1.0 and both ranges in use: the
\* divisor is 2.0, the rate 4, the error -1.0 and the threshold 4 wrapped
\* to -2
C14_Witness ==
    /\ lastOp = "process" /\ lastBuf = <<5, -5>> /\ events # <<>>
    /\ thresholdType = "ADAPTIVE" /\ ~adaptThreshPaused
    /\ host.found = <<[chan |-> indicatorChannel,
                       meta |-> <<[double |-> TRUE, value |-> Scale]>>]>>
    /\ useIndicatorRange /\ useAdaptThreshRange /\ adaptThreshRange = <<-3, 3>>
    /\ host.steps[1] = [currLRDivisor |-> Scale, currLearningRate |-> 6,
                        constantThresh |-> 0]
    /\ currLRDivisor = 2 * Scale /\ currLearningRate = 4 /\ currMinLearningRate = 2
    /\ constantThresh = -2

\* a call that found two accepted events took two steps, the second from
\* the learner the first had left
TwoStepsInOneCall ==
    /\ lastOp = "process" /\ thresholdType = "ADAPTIVE" /\ ~adaptThreshPaused
    /\ Len(host.found) = 2
    /\ host.found[1] = host.found[2] /\ host.found[1].chan = indicatorChannel
    /\ host.steps[1].constantThresh = 0 /\ host.steps[2].constantThresh = -1
    /\ constantThresh = -2

\* a call of two samples in type ADAPTIVE that found no indicator event
\* and reported a crossing
SamplesWithoutEvent ==
    /\ lastOp = "process" /\ thresholdType = "ADAPTIVE" /\ ~adaptThreshPaused
    /\ indicatorChannel = 0 /\ host.found = <<>> /\ lastBuf = <<5, -5>>
    /\ events # <<>>

\* C16: an event that arrives while the adaptive threshold is paused, or
\* while the threshold type is not ADAPTIVE, or on another channel than the
\* indicator channel, leaves constantThresh, currLRDivisor, currLearningRate
\* and currMinLearningRate unchanged: the learner after the event is the
\* learner before it, and a call that finds only such events ends with the
\* four as they were.
C16_SkippedStep ==
    [][CallStep =>
        /\ \A k \in 1..Len(host'.found) :
             (adaptThreshPaused \/ thresholdType # "ADAPTIVE" \/ ~OnIndicator(k))
                => host'.steps[k + 1] = host'.steps[k]
        /\ (\A k \in 1..Len(host'.found) :
              adaptThreshPaused \/ thresholdType # "ADAPTIVE" \/ ~OnIndicator(k))
             => UNCHANGED <<constantThresh, currLRDivisor, currLearningRate,
                            currMinLearningRate>>
        /\ UNCHANGED currMinLearningRate]_vars

\* a call found an event of value 1.0 on the indicator channel while paused,
\* in type ADAPTIVE, after an accepted one had moved the learner
C16_Witness ==
    /\ lastOp = "process"
    /\ thresholdType = "ADAPTIVE" /\ adaptThreshPaused
    /\ host.found = <<[chan |-> indicatorChannel,
                       meta |-> <<[double |-> TRUE, value |-> Scale]>>]>>
    /\ host.steps[1].currLRDivisor = 2 * Scale
    /\ currLRDivisor = 2 * Scale /\ currLearningRate = 4

\* a call found an event on another channel and then an accepted one: the
\* first left the learner as it was, the second moved it
SkippedThenAccepted ==
    /\ lastOp = "process" /\ thresholdType = "ADAPTIVE" /\ ~adaptThreshPaused
    /\ indicatorChannel = 0 /\ Len(host.found) = 2
    /\ host.found[1].chan = 1 /\ host.found[1].meta = host.found[2].meta
    /\ host.steps[2] = host.steps[1] /\ host.steps[3] # host.steps[2]

\* the events of the call that carry a value
Valued == SelectSeq(host'.found, LAMBDA e : Len(e.meta) > 0 /\ e.meta[1].double)

\* C23: an indicator event with no metadata value, or whose value is not of
\* type DOUBLE, is ignored: the learner after the event (constantThresh,
\* currLRDivisor, currLearningRate) is the learner before it, and the call
\* that found it ends as the same call without it: with the same learner,
\* the same events emitted, and the same state of the detector.
C23_IgnoredEvent ==
    [][CallStep =>
        /\ \A k \in 1..Len(host'.found) :
             ~HasPayload(k) => host'.steps[k + 1] = host'.steps[k]
        /\ \E o \in processBuffer(host'.before, Valued) :
             /\ o.learner = LearnerAfter
             /\ o.d.out = events' /\ o.d.turnoffEvent = turnoffEvent'
             /\ o.d.sampToReenable = sampToReenable'
             /\ o.d.pastSamplesAbove = pastSamplesAbove'
             /\ o.d.futureSamplesAbove = futureSamplesAbove'
             /\ o.d.jumpLimitElapsed = jumpLimitElapsed'
             /\ o.d.inputHistory = inputHistory'
             /\ o.d.thresholdHistory = thresholdHistory'
        /\ UNCHANGED <<detection, threshConfig, adaptive, currMinLearningRate, spans,
                       converted, acquiring>>]_vars

\* a call found, on the indicator channel, in type ADAPTIVE and not paused,
\* an event whose first value is no DOUBLE and then an accepted event of
\* value 1.0: the first left the learner as it was, and the second took the
\* step it takes alone
C23_Witness ==
    /\ lastOp = "process"
    /\ thresholdType = "ADAPTIVE" /\ ~adaptThreshPaused
    /\ Len(host.found) = 2
    /\ host.found[1].chan = indicatorChannel /\ host.found[2].chan = indicatorChannel
    /\ Len(host.found[1].meta) = 2 /\ ~host.found[1].meta[1].double
    /\ host.steps[1].currLRDivisor = Scale /\ host.steps[2] = host.steps[1]
    /\ currLRDivisor = 2 * Scale /\ currLearningRate = 4

\* the same with an event that has no metadata value, found alone after an
\* accepted event had moved the learner
IgnoredEmptyEvent ==
    /\ lastOp = "process"
    /\ thresholdType = "ADAPTIVE" /\ ~adaptThreshPaused
    /\ host.found = <<[chan |-> indicatorChannel, meta |-> <<>>]>>
    /\ host.steps[1].currLRDivisor = 2 * Scale
    /\ currLRDivisor = 2 * Scale /\ currLearningRate = 4

(***************************************************************************)
(* Specification of the unit step: the learning rate of one unit of        *)
(* 1 / Scale with the minimum 0, no decay, the target 0 and no indicator   *)
(* range; process calls that find no indicator event, or one or two of     *)
(* value 1.0; the threshold range [-3, 3] units, in use as constructed,    *)
(* switched off and on and its end set to 2 or 3 units, and the constant   *)
(* threshold set to 0, to 5 units or to AdaptFar, at any time.             *)
(***************************************************************************)
UnitSamples == 3

UnitInit ==
    /\ InitDetector(0, TRUE, TRUE, 1, 0, 0, 0, Scale, Scale, FALSE, 5, 1000)
    /\ InitAdaptive("CONSTANT", 0, FALSE, <<-Scale, Scale>>, 1, 0, 0, TRUE, <<-3, 3>>, 0)

\* the events a call finds: none, or one or two of value 1.0 on channel 0
UnitFound ==
    {<<>>, <<indicatorEvent(0, valued(Scale))>>,
     <<indicatorEvent(0, valued(Scale)), indicatorEvent(0, valued(Scale))>>}

UnitNext ==
    \/ \E rp \in BuffersOver(HostValues), found \in UnitFound :
         startTs + Len(rp) <= UnitSamples /\ HostProcess(<<rp>>, found)
    \/ thresholdType # "ADAPTIVE" /\ SetThresholdType("ADAPTIVE")
    \/ indicatorChannel = -1 /\ SetIndicatorChannel(0, 1, TRUE)
    \/ \E v \in {0, 5, AdaptFar} : constantThresh # v /\ SetConstantThresh(v)
    \/ \E b \in BOOLEAN : useAdaptThreshRange # b /\ SetUseAdaptThreshRange(b)
    \/ \E v \in {2, 3} : adaptThreshRange[2] # v /\ SetAdaptThreshRangeEnd(v)
    \/ UpdateSettings
    \/ StartAcquisition

SpecUnit == UnitInit /\ [][UnitNext]_vars

\* event k of the call meets the conditions of C15: it is accepted and of
\* value 1.0, the target is 0, no indicator range is in use, the learning
\* rate is one unit (the binary fraction 1 / Scale = 0.125, 0.1 being no
\* float and no double) as restarted, and there is no decay
UnitEvent(k) ==
    /\ Accepted(k) /\ Payload(k) = Scale
    /\ indicatorTarget = 0 /\ ~useIndicatorRange
    /\ startLearningRate = 1 /\ decayRate = 0
    /\ host'.steps[k].currLearningRate = startLearningRate
    /\ host'.steps[k].currLRDivisor = Scale

\* C15 (as claimed): under these conditions every indicator event of value
\* 1.0 lowers constantThresh by exactly the learning rate, so that
\* constantThresh is strictly decreasing over any number of events.
C15_UnitStepLowers ==
    [][CallStep =>
        \A k \in 1..Len(host'.found) :
           UnitEvent(k) =>
              host'.steps[k + 1].constantThresh = host'.steps[k].constantThresh - 1]_vars

\* what the code does: the event leaves the float nearest to constantThresh
\* less the learning rate, wrapped into the threshold range when it is in
\* use
UnitStepStored ==
    [][CallStep =>
        \A k \in 1..Len(host'.found) :
           UnitEvent(k) =>
              LET moved == floatOf(host'.steps[k].constantThresh - 1)
              IN  host'.steps[k + 1].constantThresh =
                     IF useAdaptThreshRange
                     THEN toEquivalentInRange(moved, adaptThreshRange).value
                     ELSE moved]_vars

\* so it lowers constantThresh by the learning rate when the threshold is
\* within 2097152.0 of 0, where the floats are no more than the learning
\* rate apart, and the threshold range is not in use or holds the result
UnitStepLowersNearZero ==
    [][CallStep =>
        \A k \in 1..Len(host'.found) :
           (/\ UnitEvent(k)
            /\ absVal(host'.steps[k].constantThresh) < 2 ^ 21 * Scale
            /\ \/ ~useAdaptThreshRange
               \/ /\ adaptThreshRange[1] <= host'.steps[k].constantThresh - 1
                  /\ host'.steps[k].constantThresh - 1 <= adaptThreshRange[2])
           => host'.steps[k + 1].constantThresh = host'.steps[k].constantThresh - 1]_vars

\* the last call found one event, which meets the conditions of C15
UnitEventHandled ==
    /\ lastOp = "process" /\ thresholdType = "ADAPTIVE" /\ ~adaptThreshPaused
    /\ host.found = <<[chan |-> indicatorChannel,
                       meta |-> <<[double |-> TRUE, value |-> Scale]>>]>>
    /\ indicatorTarget = 0 /\ ~useIndicatorRange
    /\ startLearningRate = 1 /\ decayRate = 0
    /\ host.steps[1].currLearningRate = 1 /\ host.steps[1].currLRDivisor = Scale

\* with no threshold range in use, the event left the threshold AdaptFar as
\* it was: AdaptFar less the learning rate is nearer to AdaptFar than to the
\* float below it
UnitStepAbsorbed ==
    /\ UnitEventHandled /\ ~useAdaptThreshRange
    /\ host.steps[1].constantThresh = AdaptFar /\ constantThresh = AdaptFar

\* with the threshold range [-3, 3] in use, the event took the threshold
\* from -3 to 2
UnitStepWrappedUp ==
    /\ UnitEventHandled /\ useAdaptThreshRange /\ adaptThreshRange = <<-3, 3>>
    /\ host.steps[1].constantThresh = -3 /\ constantThresh = 2

\* and from 5, above the range, to -2
UnitStepWrappedDown ==
    /\ UnitEventHandled /\ useAdaptThreshRange /\ adaptThreshRange = <<-3, 3>>
    /\ host.steps[1].constantThresh = 5 /\ constantThresh = -2

\* four events of value 1.0 at the rate of one unit, in two calls, have taken
\* the threshold from 0 to -4 units, with no threshold range in use
UnitStepsLowered ==
    /\ lastOp = "process" /\ thresholdType = "ADAPTIVE" /\ ~adaptThreshPaused
    /\ Len(host.found) = 2 /\ host.found[1] = host.found[2]
    /\ host.found[1].chan = indicatorChannel
    /\ indicatorTarget = 0 /\ ~useIndicatorRange /\ ~useAdaptThreshRange
    /\ startLearningRate = 1 /\ decayRate = 0 /\ currLearningRate = 1
    /\ host.steps[1].constantThresh = -2 /\ constantThresh = -4

(***************************************************************************)
(* Specification of the restarts of the learner: process calls that find   *)
(* an indicator event of value 1 or -1 on the indicator channel, with      *)
(* acquisition stopped and started, the learner restarted by hand, and the *)
(* threshold type, the indicator channel and the minimum learning rate     *)
(* changed at any time.                                                    *)
(***************************************************************************)
RestartSamples == 3

RestartEvents ==
    [chan : {0}, meta : {<<[double |-> TRUE, value |-> v]>> : v \in {Scale, -Scale}}]

\* the process calls are of one sample and find one indicator event
RestartNext ==
    \/ \E event \in RestartEvents :
         startTs + 1 <= RestartSamples /\ HostProcess(<<<<0>>>>, <<event>>)
    \/ \E type \in {"CONSTANT", "ADAPTIVE"} : SetThresholdType(type)
    \/ RestartAdaptiveThreshold
    \/ UpdateSettings
    \/ \E v \in {0, 2} : SetMinLearningRate(v)
    \/ \E v \in {-1, 0} : SetIndicatorChannel(v, 1, TRUE)
    \/ StartAcquisition
    \/ StopAcquisition

SpecRestart == AdaptInit /\ [][RestartNext]_vars

\* the learner is as restartAdaptiveThreshold leaves it
LearnerRestarted ==
    /\ currLRDivisor = Scale
    /\ currLearningRate = startLearningRate
    /\ currMinLearningRate = minLearningRate

\* C17 (as claimed): immediately after acquisition starts or restarts the
\* learner is restarted (currLRDivisor = 1, currLearningRate =
\* startLearningRate, currMinLearningRate = minLearningRate), whatever the
\* events of the previous run; so it is after a restart by hand and after
\* the threshold type is switched to ADAPTIVE.
C17_RestartOnStart ==
    (\/ lastOp = "start"
     \/ lastOp = "restart"
     \/ lastOp = "threshold_type" /\ thresholdType = "ADAPTIVE") => LearnerRestarted

\* what the code does: the restart by hand and the switch to ADAPTIVE restart
\* the learner
RestartOnRequest ==
    (\/ lastOp = "restart"
     \/ lastOp = "threshold_type" /\ thresholdType = "ADAPTIVE") => LearnerRestarted

\* what the code does: startAcquisition leaves the learner as the previous
\* run left it
StartKeepsLearner ==
    [][lastOp' = "start" => UNCHANGED learner]_vars

(***************************************************************************)
(* Specification of the wrap function: toEquivalentInRange applied to any  *)
(* x in -WrapMax..WrapMax and any range with bounds in -WrapBound..        *)
(* WrapBound, proper, of size zero or inverted.                            *)
(***************************************************************************)
WrapMax == 7

WrapBound == 2

WrapInit == InitWith(0, TRUE, FALSE, 1, 0, 0, 0, Scale, Scale, FALSE, 5, 1000)

CallToEquivalentInRange ==
    \E x \in (-WrapMax)..WrapMax, lo \in (-WrapBound)..WrapBound,
       hi \in (-WrapBound)..WrapBound :
        /\ call' = [fn |-> "toEquivalentInRange", x |-> x, range |-> <<lo, hi>>,
                    out |-> toEquivalentInRange(x, <<lo, hi>>)]
        /\ UNCHANGED <<params, spans, converted, internals, acquiring, startTs,
                       observed, ref, refLog, live, selection>>

WrapNext == CallToEquivalentInRange

SpecWrap == WrapInit /\ [][WrapNext]_vars

\* C18 (as claimed): for a range with hi > lo, x inside [lo, hi] is returned
\* unchanged, and every x outside is returned as the value congruent to x
\* modulo hi - lo that lies in [lo, hi), also when x - lo is a multiple of
\* hi - lo.
C18_WrapHalfOpen ==
    (call.fn = "toEquivalentInRange" /\ call.range[2] > call.range[1]) =>
        LET lo == call.range[1]
            hi == call.range[2]
        IN  IF lo <= call.x /\ call.x <= hi
            THEN call.out.value = call.x
            ELSE /\ lo <= call.out.value /\ call.out.value < hi
                 /\ (call.out.value - call.x) % (hi - lo) = 0

\* what the code does: an x outside the range is returned in (lo, hi], and as
\* hi when x - lo is a multiple of hi - lo
WrapHalfOpenAbove ==
    (call.fn = "toEquivalentInRange" /\ call.range[2] > call.range[1]) =>
        LET lo == call.range[1]
            hi == call.range[2]
        IN  IF lo <= call.x /\ call.x <= hi
            THEN call.out.value = call.x
            ELSE /\ lo < call.out.value /\ call.out.value <= hi
                 /\ (call.out.value - call.x) % (hi - lo) = 0
                 /\ (call.x - lo) % (hi - lo) = 0 => call.out.value = hi

\* C19 (as claimed): for a range with max <= min the wrap function returns
\* the lower bound range[0] for every x, and its assertion on the size of the
\* range does not fail.
C19_DegenerateRange ==
    (call.fn = "toEquivalentInRange" /\ call.range[2] <= call.range[1]) =>
        /\ call.out.value = call.range[1]
        /\ call.out.asserted

\* what the code does: the lower bound for every x when max = min
ZeroSizeRange ==
    (call.fn = "toEquivalentInRange" /\ call.range[2] = call.range[1]) =>
        /\ call.out.value = call.range[1]
        /\ call.out.asserted


(***************************************************************************)
(* Specification of the error of an indicator value: errorFromTarget       *)
(* applied to any x in -ErrMax..ErrMax, with the target in the same        *)
(* interval and the bounds of the indicator range in -ErrBound..ErrBound,  *)
(* all set through parameterValueChanged, ordered or not.                  *)
(***************************************************************************)
ErrMax == 3

ErrBound == 2

ErrInit == InitWith(0, TRUE, FALSE, 1, 0, 0, 0, Scale, Scale, FALSE, 5, 1000)

CallErrorFromTarget ==
    \E x \in (-ErrMax)..ErrMax :
        /\ call' = [fn |-> "errorFromTarget", x |-> x, target |-> indicatorTarget,
                    useRange |-> useIndicatorRange, range |-> indicatorRange,
                    out |-> errorFromTarget(x)]
        /\ UNCHANGED <<params, spans, converted, internals, acquiring, startTs,
                       observed, ref, refLog, live, selection>>

ErrNext ==
    \/ CallErrorFromTarget
    \/ \E v \in (-ErrMax)..ErrMax : SetIndicatorTarget(v)
    \/ \E b \in BOOLEAN : SetUseIndicatorRange(b)
    \/ \E v \in (-ErrBound)..ErrBound : SetIndicatorRangeStart(v)
    \/ \E v \in (-ErrBound)..ErrBound : SetIndicatorRangeEnd(v)

SpecErr == ErrInit /\ [][ErrNext]_vars

\* the size of the indicator range of the last call of errorFromTarget
CallRangeSize == call.range[2] - call.range[1]

\* the linear error of the last call of errorFromTarget
CallLinearErr == call.x - call.target

\* C20 (as claimed): with the indicator range enabled and of size
\* rangeSize > 0, errorFromTarget(v) lies in [-rangeSize/2, rangeSize/2] and
\* is congruent to v - target modulo rangeSize, for every v and target, inside
\* the range or not; with the range disabled it is exactly v - target.
C20_ErrorInHalfRange ==
    call.fn = "errorFromTarget" =>
        IF call.useRange
        THEN CallRangeSize > 0 =>
                /\ absVal(call.out.value) * 2 <= CallRangeSize
                /\ (call.out.value - CallLinearErr) % CallRangeSize = 0
        ELSE call.out.value = CallLinearErr

\* what the code does: the same, for the values and targets that are at most
\* one and a half range sizes apart; beyond, one range size is added or
\* subtracted and the result stays outside [-rangeSize/2, rangeSize/2]
ErrorInHalfRangeNear ==
    call.fn = "errorFromTarget" =>
        IF call.useRange
        THEN CallRangeSize > 0 =>
                /\ (call.out.value - CallLinearErr) % CallRangeSize = 0
                /\ absVal(CallLinearErr) * 2 <= 3 * CallRangeSize
                     <=> absVal(call.out.value) * 2 <= CallRangeSize
        ELSE call.out.value = CallLinearErr


(***************************************************************************)
(* Specification of CircularArray: an array of at most ArrayMaxLen         *)
(* elements is constructed and then used through its public functions in   *)
(* any order; call keeps the last call, with the array before (pre) and    *)
(* after it (post), the value returned (ret), and whether the jassert of   *)
(* mod held (asserted) and the division trapped (trapped).  An array that  *)
(* reached the undefined division is not used further.  Or the detector is *)
(* started and fed buffers shorter than, as long as and longer than its    *)
(* histories of 2 or 3 elements.                                           *)
(***************************************************************************)
ArrayMaxLen == 3

ArrayInit == \E ps \in 0..1 : InitWith(0, TRUE, FALSE, 1, 0, ps, 0, Scale, Scale, FALSE, 5, 1000)

\* the call fn(args) on the array under test, which it leaves as post
Called(fn, args, post, ret) ==
    /\ ~acquiring
    /\ call.fn # "none" /\ call.asserted
    /\ call' = [fn |-> fn, pre |-> call.post, args |-> args, post |-> post,
                ret |-> ret, asserted |-> TRUE, trapped |-> FALSE]
    /\ UNCHANGED <<params, spans, converted, internals, acquiring, startTs,
                   observed, ref, refLog, live, selection>>

\* the call fn(args) on the empty array under test, which ends in mod(x, 0)
CalledOnEmpty(fn, args, x) ==
    /\ ~acquiring
    /\ call.fn # "none" /\ call.asserted
    /\ \E o \in modByZero(x) :
          call' = [fn |-> fn, pre |-> call.post, args |-> args,
                   post |-> IF o.trapped THEN call.post
                            ELSE [call.post EXCEPT !.start = o.value, !.isReset = FALSE],
                   ret |-> DefaultElement, asserted |-> FALSE, trapped |-> o.trapped]
    /\ UNCHANGED <<params, spans, converted, internals, acquiring, startTs,
                   observed, ref, refLog, live, selection>>

CallCircularArray(length) ==
    /\ ~acquiring
    /\ call' = [fn |-> "CircularArray", pre |-> CircularArray(0), args |-> <<length>>,
                post |-> CircularArray(length), ret |-> DefaultElement,
                asserted |-> TRUE, trapped |-> FALSE]
    /\ UNCHANGED <<params, spans, converted, internals, acquiring, startTs,
                   observed, ref, refLog, live, selection>>

CallGet(index) == Called("get", <<index>>, call.post, get(call.post, index))

CallSet(index, v) ==
    Called("set", <<index, v>>, set(call.post, index, v), DefaultElement)

CallEnqueue(v) ==
    /\ call.fn # "none"
    /\ IF size(call.post) > 0
       THEN Called("enqueue", <<v>>, enqueue(call.post, v), DefaultElement)
       ELSE CalledOnEmpty("enqueue", <<v>>, call.post.start + 1)

CallEnqueueArray(newValues) ==
    /\ call.fn # "none"
    /\ IF size(call.post) > 0
       THEN Called("enqueueArray", <<newValues>>, enqueueArray(newValues, call.post),
                   DefaultElement)
       ELSE CalledOnEmpty("enqueueArray", <<newValues>>, call.post.start)

CallInsertMultiple(at, v, n) ==
    /\ call.fn # "none"
    /\ size(call.post) + n <= ArrayMaxLen
    /\ Called("insertMultiple", <<at, v, n>>, insertMultiple(call.post, at, v, n),
              DefaultElement)

CallRemoveLast(n) ==
    Called("removeLast", <<n>>, removeLast(call.post, n), DefaultElement)

CallResize(m) == Called("resize", <<m>>, resize(call.post, m), DefaultElement)

CallReset == Called("reset", <<>>, reset(call.post), DefaultElement)

CallClear == Called("clear", <<>>, clear(call.post), DefaultElement)

ArrayNext ==
    \/ \E length \in (-1)..ArrayMaxLen : CallCircularArray(length)
    \/ \E index \in (-ArrayMaxLen)..ArrayMaxLen : CallGet(index)
    \/ \E index \in (-ArrayMaxLen)..ArrayMaxLen, v \in 0..2 : CallSet(index, v)
    \/ \E v \in 1..2 : CallEnqueue(v)
    \/ \E newValues \in UNION {[1..k -> 1..2] : k \in 0..(ArrayMaxLen + 1)} :
          CallEnqueueArray(newValues)
    \/ \E at \in (-1)..ArrayMaxLen, v \in 0..1, n \in 0..2 : CallInsertMultiple(at, v, n)
    \/ \E n \in 0..ArrayMaxLen : CallRemoveLast(n)
    \/ \E m \in 0..ArrayMaxLen : CallResize(m)
    \/ CallReset
    \/ CallClear
    \/ call = NoCall /\ StartAcquisition
    \/ VoteProcess

SpecArray == ArrayInit /\ [][ArrayNext]_vars

\* the samples and the realized thresholds fed so far, the last one last
FedIn == preIn \o lastBuf

FedTh == preTh \o lastThr

\* C28: enqueueArray(values, k) on an array of size W > 0 keeps the size W
\* and, with n = min(k, W), leaves circular index W-j holding values[k-j] for
\* 1 <= j <= n and circular index i holding the element previously at i+n for
\* 0 <= i < W-n; and after any sequence of process calls, on buffers shorter
\* than, as long as or longer than the histories, inputHistory[-j] and
\* thresholdHistory[-j] are the sample and the realized threshold j positions
\* before the start of the next buffer, for 1 <= j <= W.
C28_EnqueueArrayShifts ==
    /\ (call.fn = "enqueueArray" /\ size(call.pre) > 0) =>
          LET W == size(call.pre)
              values == call.args[1]
              k == Len(values)
              n == jmin(k, W)
          IN  /\ size(call.post) = W
              /\ \A j \in 1..n : get(call.post, W - j) = values[k - j + 1]
              /\ \A i \in 0..(W - n - 1) : get(call.post, i) = get(call.pre, i + n)
    /\ acquiring =>
          /\ size(inputHistory) = historyLength
          /\ size(thresholdHistory) = historyLength
          /\ \A j \in 1..historyLength :
                /\ get(inputHistory, -j) = FedIn[Len(FedIn) - j + 1]
                /\ get(thresholdHistory, -j) = FedTh[Len(FedTh) - j + 1]

\* two values enqueued in an array of three whose start is its last element:
\* the first overwrites the last element and the second the first
C28_Witness ==
    /\ call.fn = "enqueueArray"
    /\ size(call.pre) = 3 /\ call.pre.start = 2
    /\ call.args[1] = <<1, 2>>
    /\ call.post.array[3] = 1 /\ call.post.array[1] = 2

\* a buffer longer than the histories processed after a shorter one
HistoryOverrun ==
    /\ lastOp = "process" /\ lastN > historyLength
    /\ inputHistory.start > 0
    /\ \E j \in 1..historyLength : get(inputHistory, -j) # DefaultElement

\* C29: resize(m) with m >= 0 sets the size to m, leaves the element at every
\* circular index i < min(oldSize, m) unchanged and gives the default value to
\* every circular index oldSize <= i < m, whatever calls of enqueue,
\* enqueueArray, set, insertMultiple and removeLast preceded it.
C29_ResizeAtEnd ==
    call.fn = "resize" =>
        LET oldSize == size(call.pre)
            m == call.args[1]
        IN  /\ size(call.post) = m
            /\ \A i \in 0..(jmin(oldSize, m) - 1) : get(call.post, i) = get(call.pre, i)
            /\ \A i \in oldSize..(m - 1) : get(call.post, i) = DefaultElement

\* an array of two different elements that starts at its second one, grown
\* to three
C29_Witness ==
    /\ call.fn = "resize"
    /\ size(call.pre) = 2 /\ call.pre.start = 1 /\ ~call.pre.isReset
    /\ call.pre.array = <<1, 2>>
    /\ call.args[1] = 3
    /\ call.post.array = <<1, 0, 2>>

\* an array of three that starts at its last element, cut to two: the
\* element removed is the one before the start
ResizeShrinksWrapped ==
    /\ call.fn = "resize"
    /\ size(call.pre) = 3 /\ call.pre.start = 2 /\ ~call.pre.isReset
    /\ call.args[1] = 2
    /\ call.post.start = 1

\* C30 (as claimed): on an empty array operator[] returns the default value
\* for any index, and set, enqueue and enqueueArray leave the array empty
\* without a failed assertion or a modulo by zero.
C30_EmptyArrayNoOp ==
    (call.fn \in {"get", "set", "enqueue", "enqueueArray"} /\ size(call.pre) = 0) =>
        /\ call.ret = DefaultElement
        /\ size(call.post) = 0
        /\ call.asserted /\ ~call.trapped

\* what the code does: operator[] and set are as claimed
EmptyArrayGetSet ==
    (call.fn \in {"get", "set"} /\ size(call.pre) = 0) =>
        /\ call.ret = DefaultElement
        /\ call.post = call.pre
        /\ call.asserted /\ ~call.trapped


(***************************************************************************)
(* Specification of the conversions from milliseconds to samples: the      *)
(* event duration and the timeout take the values below, at 1000 Hz and at *)
(* 30000 Hz, before acquisition and by parameter changes at any time.      *)
(***************************************************************************)
ConvDurations == {0, 1, 3, 8949, 8951}

ConvRates == {1000, 30000}

ConvInit ==
    \E dur \in ConvDurations, tout \in ConvDurations, rate \in ConvRates :
        InitWith(0, TRUE, FALSE, dur, tout, 0, 0, Scale, Scale, FALSE, 5, rate)

ConvNext ==
    \/ \E v \in ConvDurations : SetEventDuration(v)
    \/ \E v \in ConvDurations : SetTimeout(v)
    \/ StartAcquisition
    \/ StopAcquisition

SpecConv == ConvInit /\ [][ConvNext]_vars

\* C24 (as claimed): eventDurationSamp = ceil(d * r / 1000) and timeoutSamp =
\* floor(t * r / 1000) for every duration d ms, timeout t ms and sample rate
\* r, at acquisition start and after every change of the ms parameters.
C24_ConversionsExact ==
    /\ eventDurationSamp = CeilDiv(eventDuration * sampleRate, 1000)
    /\ timeoutSamp = FloorDiv(timeout * sampleRate, 1000)

\* what the code does: the two values are recomputed by every start and every
\* change of a ms parameter, are exact while d * r and t * r have at most 24
\* significant bits, and beyond are within one sample of the exact values
ConversionsInFloat ==
    /\ eventDurationSamp = durationToSamples(eventDuration, sampleRate)
    /\ timeoutSamp = timeoutToSamples(timeout, sampleRate)
    /\ eventDuration * sampleRate < 2 ^ 24
          => eventDurationSamp = CeilDiv(eventDuration * sampleRate, 1000)
    /\ timeout * sampleRate < 2 ^ 24
          => timeoutSamp = FloorDiv(timeout * sampleRate, 1000)
    /\ absVal(eventDurationSamp - CeilDiv(eventDuration * sampleRate, 1000)) <= 1
    /\ absVal(timeoutSamp - FloorDiv(timeout * sampleRate, 1000)) <= 1

\* an event duration of 8949 ms at 30000 Hz, set during acquisition: one
\* sample more than ceil(d * r / 1000) = 268470
DurationRoundedUp ==
    /\ lastOp = "event_duration" /\ acquiring
    /\ eventDuration = 8949 /\ sampleRate = 30000
    /\ eventDurationSamp = 268471

\* a timeout of 8951 ms at 30000 Hz: one sample less than
\* floor(t * r / 1000) = 268530
TimeoutRoundedDown ==
    /\ lastOp = "Timeout_ms"
    /\ timeout = 8951 /\ sampleRate = 30000
    /\ timeoutSamp = 268529


(***************************************************************************)
(* Specification of the buffer-end mask: both directions on two-valued     *)
(* samples around the threshold 0, no voting, a timeout of 0 or 2 samples, *)
(* the mask switched on and off and set to 0..MaskMax ms (samples, at      *)
(* 1000 Hz) at any time.                                                   *)
(***************************************************************************)
MaskSamples == 6

MaskMax == 2

MaskInit ==
    \E tout \in SchedTimeouts :
        InitWith(0, TRUE, TRUE, 1, tout, 0, 0, Scale, Scale, FALSE, 5, 1000)

MaskProcess ==
    \E rp \in BuffersOver(Bits) : startTs + Len(rp) <= MaskSamples /\ Process(rp)

MaskNext ==
    \/ MaskProcess
    \/ \E b \in BOOLEAN : SetUseBufferEndMask(b)
    \/ \E v \in 0..MaskMax : SetBufferEndMask(v)
    \/ StartAcquisition
    \/ StopAcquisition

SpecMask == MaskInit /\ [][MaskNext]_vars

\* the last call emitted an on-event for the candidate c of its buffer
OnEventAt(c) == \E k \in 1..Len(trigLog) : trigLog[k].cross = lastStart + c

\* C25 (as claimed): with the mask enabled and bufferEndMaskSamp = K, a
\* candidate within the last K samples of the buffer never produces an
\* on-event.
C25_MaskedNearEnd ==
    (lastOp = "process" /\ useBufferEndMask) =>
        \A c \in 0..(lastN - 1) : lastN - c <= bufferEndMaskSamp => ~OnEventAt(c)

\* the candidate c of the buffer of the step passes the test made of every
\* candidate when there is no mask: it is past the sampToReenable the call
\* started with and past the timeout of every on-event the call emitted
\* before it, and shouldTrigger accepts it, as a rising crossing if the sleep
\* counter jumpLimitElapsed is above 0 when it is reached, or as a falling one
EvaluatedUnmasked(c) ==
    /\ c >= sampToReenable
    /\ \A k \in 1..Len(trigLog') :
          trigLog'[k].cross < startTs + c =>
              startTs + c >= trigLog'[k].cross + 1 + timeoutSamp
    /\ \/ /\ ~ObsAbove(c - 1)' /\ ObsAbove(c)'
          /\ voteLog'[c + 1].elapsed > 0
       \/ ObsAbove(c - 1)' /\ ~ObsAbove(c)'

\* C25 (amended): with the mask enabled and bufferEndMaskSamp = K, a
\* candidate c of a buffer of n samples with n - c > K never produces an
\* on-event, and a candidate with n - c <= K produces one exactly when it
\* passes the test made of every candidate with the mask disabled (past
\* sampToReenable, accepted by shouldTrigger).
C25_MaskedFarFromEnd ==
    [][lastOp' = "process" =>
          \A c \in 0..(Len(lastBuf') - 1) :
              OnEventAt(c)' <=>
                  /\ useBufferEndMask => Len(lastBuf') - c <= bufferEndMaskSamp
                  /\ EvaluatedUnmasked(c)]_vars

\* a buffer of three samples under a mask of one sample: the crossing at its
\* first sample is skipped and the one at its last sample gives an on-event
C25_Witness ==
    /\ lastOp = "process" /\ useBufferEndMask /\ bufferEndMaskSamp = 1
    /\ lastN = 3 /\ lastBuf = <<1, 0, 1>>
    /\ ObsIn(-1) = 0
    /\ sampToReenable = 0
    /\ ~OnEventAt(0) /\ ~OnEventAt(1) /\ OnEventAt(2)


(***************************************************************************)
(* Specification of the events and their metadata: both directions on      *)
(* samples of -5 and 5 units, a future span of 0 or 1, events of 1 or 3    *)
(* samples, the threshold type CONSTANT or ADAPTIVE and changed at any     *)
(* time, and calls that find an indicator event of value 1.0, which moves  *)
(* the threshold (from 0 to -4 units) and the learning rate (from 6 to 4   *)
(* units) before the samples are evaluated.                                *)
(***************************************************************************)
MetaSamples == 5

MetaInit ==
    \E type \in {"CONSTANT", "ADAPTIVE"}, dur \in {1, 3}, fs \in 0..1 :
        /\ InitDetector(0, TRUE, TRUE, dur, 0, 0, fs, Scale, Scale, FALSE, 5, 1000)
        /\ InitAdaptive(type, 0, FALSE, <<-Scale, Scale>>, 6, 2, Scale, FALSE,
                        <<-3, 3>>, 2)

MetaProcess ==
    \E rp \in BuffersOver({-5, 5}),
       found \in {<<>>, <<[chan |-> 0, meta |-> <<[double |-> TRUE, value |-> Scale]>>]>>} :
        startTs + Len(rp) <= MetaSamples /\ HostProcess(<<rp>>, found)

MetaNext ==
    \/ MetaProcess
    \/ StartAcquisition
    \/ \E type \in {"CONSTANT", "ADAPTIVE"} : thresholdType # type /\ SetThresholdType(type)
    \/ indicatorChannel = -1 /\ SetIndicatorChannel(0, 1, TRUE)

SpecMeta == MetaInit /\ [][MetaNext]_vars

\* the on-events and the off-events the last call gave to addEvent
OnEvents == SelectSeq(events, LAMBDA x : x.ev.on)

OffEvents == SelectSeq(events, LAMBDA x : ~x.ev.on)

\* the five metadata values of an event
Metadata(e) == <<e.cross, e.level, e.thresh, e.dir, e.lr>>

\* the off-event made from an on-event
OffEventFor(e) == [e EXCEPT !.on = FALSE, !.ts = e.ts + eventDurationSamp]

\* C27: each on-event is emitted at offset max(c, 0) and carries the
\* crossing point bufferStart + c, the crossing level postVal, the threshold
\* postThresh, the direction 1 for a rising and 0 for a falling crossing, and
\* the learning rate currLearningRate in type ADAPTIVE and 0 otherwise; its
\* off-event carries the same metadata and the timestamp of the on-event +
\* eventDurationSamp.
C27_EventMetadata ==
    lastOp = "process" =>
        /\ Len(OnEvents) = Len(trigLog)
        /\ \A k \in 1..Len(OnEvents) :
              LET e == OnEvents[k].ev
                  c == trigLog[k].cross - lastStart
              IN  /\ OnEvents[k].offset = jmax(c, 0)
                  /\ e.ts = lastStart + jmax(c, 0)
                  /\ e.cross = lastStart + c
                  /\ e.level = ObsIn(c)
                  /\ e.thresh = ObsTh(c)
                  /\ e.dir = (IF ~ObsAbove(c - 1) /\ ObsAbove(c) THEN 1 ELSE 0)
                  /\ e.dir = 0 => ObsAbove(c - 1) /\ ~ObsAbove(c)
                  /\ e.lr = (IF thresholdType = "ADAPTIVE" THEN currLearningRate ELSE 0)
                  \* its off-event is emitted by the call, or kept pending, or
                  \* replaced as pending by the one of a later on-event
                  /\ \/ Emitted(events, OffEventFor(e))
                     \/ turnoffEvent = <<OffEventFor(e)>>
                     \/ k < Len(OnEvents)
        /\ \A k \in 1..Len(OffEvents) :
              \/ \E j \in 1..Len(OnEvents) :
                    /\ OffEvents[k].ev = OffEventFor(OnEvents[j].ev)
                    /\ Metadata(OffEvents[k].ev) = Metadata(OnEvents[j].ev)
              \/ OffEvents[k].ev.cross < lastStart - futureSpan
        /\ turnoffEvent # <<>> =>
              \/ \E j \in 1..Len(OnEvents) : turnoffEvent[1] = OffEventFor(OnEvents[j].ev)
              \/ turnoffEvent[1].cross < lastStart - futureSpan

\* a falling crossing at the first sample of a buffer, in type ADAPTIVE after
\* an indicator event has taken the threshold to -4 units and the learning
\* rate to 4: its on-event is emitted at offset 0 and its off-event, three
\* samples later, is pending
C27_Witness ==
    /\ lastOp = "process" /\ thresholdType = "ADAPTIVE"
    /\ eventDurationSamp = 3 /\ lastN < 3
    /\ currLearningRate = 4 /\ constantThresh = -4
    /\ Len(OnEvents) = 1
    /\ OnEvents[1].ev.cross = lastStart /\ OnEvents[1].offset = 0
    /\ OnEvents[1].ev.level = -5 /\ OnEvents[1].ev.thresh = -4
    /\ OnEvents[1].ev.dir = 0 /\ OnEvents[1].ev.lr = 4
    /\ turnoffEvent = <<OffEventFor(OnEvents[1].ev)>>

\* a rising crossing in type CONSTANT after the learner has moved: the
\* events carry the learning rate 0
ConstantTypeRateZero ==
    /\ lastOp = "process" /\ thresholdType = "CONSTANT"
    /\ currLearningRate = 4
    /\ Len(OnEvents) = 1 /\ Len(OffEvents) = 1
    /\ OnEvents[1].ev.dir = 1 /\ OnEvents[1].ev.lr = 0 /\ OffEvents[1].ev.lr = 0

(***************************************************************************)
(* Specification of the channel selection: a stream of HostChannels        *)
(* continuous channels, with the input channel valid, missing or beyond    *)
(* the stream, the threshold channel and the threshold type changed at any *)
(* time, and indicator events found by the calls.                          *)
(***************************************************************************)
HostChannels == 2

HostBuf == 2

HostSamples == 2

HostBuffers == UNION {[1..HostChannels -> [1..n -> HostValues]] : n \in 1..HostBuf}

\* the events a call finds: none, one of the indicator channel, one of
\* another channel before it, two of the indicator channel
HostEvents ==
    LET indicator(chan, v) == [chan |-> chan, meta |-> <<[double |-> TRUE, value |-> v]>>]
    IN  {<<>>, <<indicator(0, Scale)>>, <<indicator(1, Scale), indicator(0, Scale)>>,
         <<indicator(0, Scale), indicator(0, -Scale)>>}

\* parameterValueChanged("threshold_chan"): the value is stored as given
SetThresholdChannel(v) ==
    /\ thresholdChannel' = v
    /\ paramChanged("threshold_chan")
    /\ UNCHANGED <<constantThresh, detection, thresholdType, randomThreshRange,
                   adaptive, learner>>

\* parameterValueChanged("toggle_threshold")
SetToggleThreshold(b) ==
    /\ toggleThreshold' = b
    /\ ObserveVars("toggle_threshold", LastN(preIn \o lastBuf, historyLength),
                                       LastN(preTh \o lastThr, historyLength))
    /\ UNCHANGED <<params, spans, converted, internals, acquiring, startTs, ref, refLog,
                   inputChannel, eventChannelPtr, host, constant_threshold>>

\* The detector as configured before acquisition: the "Channel" selection
\* is empty (-1), a channel of the stream, or one the stream no longer has;
\* the settings hold no event channel as constructed, and the one
\* updateSettings gave them otherwise.
HostInit ==
    \E channel \in -1..HostChannels, ptr \in BOOLEAN :
        /\ InitState(0, TRUE, TRUE, 1, 0, 0, 0, Scale, Scale, FALSE, 5, 1000)
        /\ InitAdaptive("CONSTANT", 0, FALSE, <<-Scale, Scale>>, 7, 1, Scale, FALSE,
                        <<-3, 3>>, 1)
        /\ inputChannel = channel /\ eventChannelPtr = ptr /\ toggleThreshold = FALSE
        /\ host = NoBuffer

\* a call that faulted ends the program
HostNext ==
    \/ \E buf \in HostBuffers, found \in HostEvents :
         /\ host.ended # "fault" /\ startTs + Len(buf[1]) <= HostSamples
         /\ HostProcess(buf, found)
    \/ host.ended # "fault" /\ StartAcquisition
    \/ host.ended # "fault" /\ UpdateSettings
    \/ \E type \in {"CONSTANT", "ADAPTIVE", "CHANNEL"} :
         host.ended # "fault" /\ thresholdType # type /\ SetThresholdType(type)
    \/ \E v \in 0..HostChannels :
         host.ended # "fault" /\ thresholdChannel # v /\ SetThresholdChannel(v)
    \/ \E b \in BOOLEAN :
         host.ended # "fault" /\ toggleThreshold # b /\ SetToggleThreshold(b)
    \/ host.ended # "fault" /\ indicatorChannel = -1 /\ SetIndicatorChannel(0, 1, TRUE)

SpecHost == HostInit /\ [][HostNext]_vars

\* the state the claims name: sampToReenable, the voting counters, the
\* histories, the pending turn-off event and the adaptive state
NamedState == <<sampToReenable, pastSamplesAbove, futureSamplesAbove, inputHistory,
                thresholdHistory, turnoffEvent, constantThresh, currLearningRate,
                currLRDivisor>>

\* C21: a process call made while the input channel is negative or no
\* channel of the buffer, or while the event channel is missing, emits no
\* event and leaves sampToReenable, both voting counters, both histories,
\* the pending turn-off event, constantThresh, the learning rate and the
\* divisor unchanged.
C21_SkipIsNoOp ==
    [][(lastOp' = "process" /\ invalidSelection(Len(host'.before)))
       => (events' = <<>> /\ UNCHANGED NamedState)]_vars

\* such a call emits no event and leaves all of that state but the learner
\* and the threshold unchanged
SkipLeavesDetection ==
    [][(lastOp' = "process" /\ invalidSelection(Len(host'.before)))
       => (/\ host'.ended = "skipped" /\ events' = <<>>
           /\ UNCHANGED <<sampToReenable, pastSamplesAbove, futureSamplesAbove,
                          inputHistory, thresholdHistory, turnoffEvent,
                          jumpLimitElapsed>>)]_vars

\* and all of it when checkForEvents found no indicator event
SkipWithoutEvents ==
    [][(lastOp' = "process" /\ invalidSelection(Len(host'.before))
          /\ host'.found = <<>>)
       => (events' = <<>> /\ UNCHANGED NamedState)]_vars

\* a skipped call whose indicator event moved the threshold
SkipMovedThreshold ==
    /\ lastOp = "process" /\ host.ended = "skipped" /\ inputChannel = -1
    /\ eventChannelPtr /\ host.found # <<>>
    /\ constantThresh = -4 /\ currLRDivisor = 2 * Scale

\* C22: a process call made while thresholdChannel is no channel of the
\* stream is skipped: it emits no event and does not fault, in every
\* threshold type.
C22_ThresholdChannelGuarded ==
    [][(lastOp' = "process" /\ thresholdChannel >= Len(host'.before))
       => (host'.ended = "skipped" /\ events' = <<>>)]_vars

\* the call faults on the null channel in type CONSTANT
FaultInConstantType ==
    /\ host.ended = "fault" /\ thresholdType = "CONSTANT"
    /\ thresholdChannel = HostChannels /\ inputChannel = 0

\* or emits events whose thresholds were read through the unread index
EventsFromNullChannel ==
    /\ host.ended = "completed" /\ thresholdType = "CHANNEL"
    /\ thresholdChannel = HostChannels /\ events # <<>>

\* C26: a process call leaves every sample of every channel of the
\* continuous buffer as it was given.
C26_PassThrough == host.after = host.before

\* with toggleThreshold set the input channel leaves as sample - threshold
ToggledInput ==
    /\ host.ended = "completed" /\ toggleThreshold /\ inputChannel = 0
    /\ thresholdType = "CHANNEL" /\ thresholdChannel = 1
    /\ host.before = <<<<5>>, <<-5>>>> /\ host.after = <<<<10>>, <<-5>>>>

\* with toggleThreshold off the buffer is left as given
UntoggledPassThrough ==
    (lastOp = "process" /\ ~toggleThreshold) => host.after = host.before

(***************************************************************************)
(* The calls of shouldTrigger, as process makes them: the entry of voteLog *)
(* of a sample holds the counters at the call and calls, the call of each  *)
(* direction with its arguments, its result, and jumpLimitElapsed before   *)
(* and after it.                                                           *)
(***************************************************************************)
\* the four conditions of a call made with the counters of entry v
FourConditions(v, c) ==
    /\ c.direction # (c.preVal > c.preThresh)
    /\ c.direction = (c.postVal > c.postThresh)
    /\ pastSat(c.direction, v.past)
    /\ futureSat(c.direction, v.future)

\* C31: with the jump limit off and jumpLimitSleep = 0, every call of
\* shouldTrigger, the first one after the start of acquisition included,
\* returns preSat /\ postSat /\ pastSat /\ futureSat and leaves
\* jumpLimitElapsed as it was.
C31_ShouldTriggerIsConjunction ==
    (~useJumpLimit /\ jumpLimitSleep = 0) =>
        \A i \in 1..Len(voteLog) : \A k \in 1..Len(voteLog[i].calls) :
            /\ voteLog[i].calls[k].result = FourConditions(voteLog[i], voteLog[i].calls[k])
            /\ voteLog[i].calls[k].after = voteLog[i].calls[k].before

\* every call but the one that finds jumpLimitElapsed = 0 does so
LaterCallsAreConjunction ==
    (~useJumpLimit /\ jumpLimitSleep = 0) =>
        \A i \in 1..Len(voteLog) : \A k \in 1..Len(voteLog[i].calls) :
            voteLog[i].calls[k].before > 0 =>
                /\ voteLog[i].calls[k].result
                     = FourConditions(voteLog[i], voteLog[i].calls[k])
                /\ voteLog[i].calls[k].after = voteLog[i].calls[k].before

\* the first call after the start: the four conditions hold, the call returns
\* false and counts jumpLimitElapsed up
FirstCallRejected ==
    /\ ~useJumpLimit /\ jumpLimitSleep = 0
    /\ \E i \in 1..Len(voteLog) :
         /\ Len(voteLog[i].calls) > 0
         /\ voteLog[i].calls[1].direction
         /\ FourConditions(voteLog[i], voteLog[i].calls[1])
         /\ ~voteLog[i].calls[1].result
         /\ voteLog[i].calls[1].before = 0 /\ voteLog[i].calls[1].after = 1

(***************************************************************************)
(* The sleep after a jump: the jump limit is on with jumpLimit 2, the      *)
(* spans, the timeout and the event duration are 0, so that every sample   *)
(* from 1 on is a candidate that process tests, and jumpLimitSleep is set  *)
(* before acquisition to a whole number of samples (the sample rate is     *)
(* Scale Hz, so that one unit of the sleep is one sample).                 *)
(***************************************************************************)
CoolSamples == 6

CoolMax == 2

CoolSleeps == {0, 2, 4}

CoolInit ==
    \E dirs \in {<<TRUE, FALSE>>, <<FALSE, TRUE>>, <<TRUE, TRUE>>} :
        InitWith(1, dirs[1], dirs[2], 0, 0, 0, 0, Scale, Scale, TRUE, 2, Scale)

CoolProcess ==
    \E rp \in BuffersOver(0..CoolMax) :
        startTs + Len(rp) <= CoolSamples /\ ProcessLogged(rp)

CoolNext ==
    \/ CoolProcess
    \/ StartAcquisition
    \/ \E v \in CoolSleeps : ~acquiring /\ jumpLimitSleep # v /\ SetJumpLimitSleep(v)

SpecCool == CoolInit /\ [][CoolNext]_vars

\* the sleep in samples, jumpLimitSleep * sampleRate
SleepSamples == (jumpLimitSleep * sampleRate) \div Scale

\* sample c of the acquisition
Sample(c) == stream[c + 1]

\* the candidate c was tested and rejected by the jump limit
JumpRejectedAt(c) ==
    c >= 1 /\ c < Len(stream) /\ absVal(Sample(c) - Sample(c - 1)) >= jumpLimit

\* the samples around c cross the threshold in a direction that is on
CrossesAt(c) ==
    \/ posOn /\ ~(Sample(c - 1) > constantThresh) /\ Sample(c) > constantThresh
    \/ negOn /\ Sample(c - 1) > constantThresh /\ ~(Sample(c) > constantThresh)

OnEventFor(c) == \E k \in 1..Len(onLog) : onLog[k].cross = c

\* no on-event for a candidate in (c, c + S)
SleepsAfter(c) == \A m \in (c + 1)..(c + SleepSamples - 1) : ~OnEventFor(m)

\* a crossing beyond c + S + 1, with no jump since c, gives its on-event
AwakeAfter(c) ==
    \A m \in (c + SleepSamples + 2)..(Len(stream) - 1) :
        ((\A j \in (c + 1)..m : ~JumpRejectedAt(j)) /\ CrossesAt(m)) => OnEventFor(m)

\* every sample from 1 on is tested by shouldTrigger in each direction that
\* is on and that the other did not pre-empt
EveryCandidateTested ==
    lastOp = "process" =>
        \A i \in 1..Len(voteLog) :
            lastStart + i - 1 >= 1 => Len(voteLog[i].calls) > 0

\* C32: after a candidate c is rejected by the jump limit, with a sleep of
\* S = jumpLimitSleep * sampleRate samples, no on-event is emitted for a
\* candidate in (c, c + S), whichever directions are on, and a crossing
\* beyond c + S + 1 is no longer blocked.
C32_SleepInSamples ==
    \A c \in 1..(Len(stream) - 1) : JumpRejectedAt(c) => (SleepsAfter(c) /\ AwakeAfter(c))

\* with one direction on the sleep lasts S + 1 samples
SleepWithOneDirection ==
    ~(posOn /\ negOn) =>
        \A c \in 1..(Len(stream) - 1) :
            JumpRejectedAt(c) => (SleepsAfter(c) /\ AwakeAfter(c))

\* with both on, a crossing beyond c + S + 1 is not blocked either
AwakeWithBothDirections ==
    \A c \in 1..(Len(stream) - 1) : JumpRejectedAt(c) => AwakeAfter(c)

\* with both directions on and a sleep of 4 samples, the jump at sample 1
\* is followed by a falling on-event at sample 4
ShortSleep ==
    /\ posOn /\ negOn /\ SleepSamples = 4
    /\ stream = <<0, 2, 2, 2, 1>>
    /\ OnEventFor(4)

(***************************************************************************)
(* Two runs on the same buffers: the detector with both directions on, and *)
(* the second detector (ref) with the same parameters but one direction    *)
(* only, set before acquisition (parameterValueChanged "Rising" and        *)
(* "Falling").  The jump limit and its sleep are off, the timeout is 0.    *)
(***************************************************************************)
DirSamples == 4

DirInit ==
    \E ps \in 0..1, fs \in 0..1 :
        InitWith(0, TRUE, TRUE, 1, 0, ps, fs, Scale, Scale, FALSE, 5, 1000)

\* startAcquisition of both, the second with rising only or falling only
StartOneDirection(rising) ==
    /\ StartVars
    /\ ref' = [ref EXCEPT !.jumpLimitElapsed = floatOf(jumpLimitSleep * sampleRate) \div Scale,
                          !.currPosOn = rising, !.currNegOn = ~rising]
    /\ refLog' = <<>>

\* process of both on the same buffer
ProcessPair(rp) ==
    /\ ProcessVars(rp, TRUE)
    /\ \E r \in {process([ref EXCEPT !.constantThresh = constantThresh,
                                     !.currLearningRate = currLearningRate],
                         rp, startTs)} :
         /\ ref' = Rest(r)
         /\ refLog' = refLog \o Crossings(r.trig)

DirNext ==
    \/ \E rp \in BuffersOver(Bits) : startTs + Len(rp) <= DirSamples /\ ProcessPair(rp)
    \/ \E rising \in BOOLEAN : StartOneDirection(rising)

SpecDir == DirInit /\ [][DirNext]_vars

\* the on-events of a log in one direction (1 rising, 0 falling)
InDirection(log, dir) == SelectSeq(log, LAMBDA e : e.dir = dir)

\* C33: with timeoutSamp = 0, the falling on-events of the run with both
\* directions on are the on-events of the run with falling only, on the
\* same samples, and the rising ones those of the run with rising only.
C33_DirectionsIndependent ==
    (acquiring /\ timeoutSamp = 0 /\ posOn /\ negOn) =>
        refLog = InDirection(onLog, IF ref.currPosOn THEN 1 ELSE 0)

\* the sample after the warm-up falls through the threshold: the run with
\* both directions on gives the falling on-event, the run with falling only
\* gives none
FallingOnlyMissesFirst ==
    /\ acquiring /\ timeoutSamp = 0 /\ pastSpan = 0 /\ futureSpan = 0
    /\ ~ref.currPosOn /\ ref.currNegOn
    /\ stream = <<1, 0>>
    /\ onLog = <<[cross |-> 1, dir |-> 0]>> /\ refLog = <<>>

\* the two runs agree on the rising on-events: the first call of
\* shouldTrigger after the start is the rising one in both
RisingIndependent ==
    (acquiring /\ timeoutSamp = 0 /\ posOn /\ negOn /\ ref.currPosOn) =>
        refLog = InDirection(onLog, 1)

(***************************************************************************)
(* The threshold within one call: a stream of one channel, the types       *)
(* CONSTANT and ADAPTIVE, indicator events found by the call, and changes  *)
(* of the type, of the constant threshold and of the indicator channel     *)
(* between calls.                                                          *)
(***************************************************************************)
DrainSamples == 3

DrainInit ==
    \E fs \in 0..1 :
        /\ InitDetector(0, TRUE, TRUE, 1, 0, 0, fs, Scale, Scale, FALSE, 5, 1000)
        /\ InitAdaptive("CONSTANT", 0, FALSE, <<-Scale, Scale>>, 7, 1, Scale, FALSE,
                        <<-3, 3>>, 1)

DrainProcess ==
    \E rp \in BuffersOver(HostValues), found \in HostEvents :
        startTs + Len(rp) <= DrainSamples /\ HostProcess(<<rp>>, found)

DrainNext ==
    \/ DrainProcess
    \/ StartAcquisition
    \/ UpdateSettings
    \/ \E type \in {"CONSTANT", "ADAPTIVE"} : thresholdType # type /\ SetThresholdType(type)
    \/ indicatorChannel = -1 /\ SetIndicatorChannel(0, 1, TRUE)
    \/ \E v \in {0, 3} : constantThresh # v /\ SetConstantThresh(v)

SpecDrain == DrainInit /\ [][DrainNext]_vars

\* the last operation was a process call that evaluated its buffer
Evaluated == lastOp = "process" /\ host.ended = "completed"

\* C34: the indicator events a process call finds are handled before its
\* loop over the samples, and a parameter change falls between two calls:
\* in the types CONSTANT and ADAPTIVE every sample of the buffer gets the
\* same threshold, the value of constantThresh after those events; the
\* tests of a candidate read the thresholds of its two samples; and
\* thresholdHistory holds for each sample the threshold it was given.
C34_OneThresholdPerCall ==
    /\ [][(lastOp' = "process" /\ host'.ended = "completed")
            => constantThresh' = checkForEvents(host'.found).constantThresh]_vars
    /\ [](Evaluated =>
            /\ \A i \in 1..Len(lastThr) : lastThr[i] = constantThresh
            /\ \A i \in 1..Len(voteLog) : \A k \in 1..Len(voteLog[i].calls) :
                 /\ voteLog[i].calls[k].postThresh = ObsTh(i - 1 - futureSpan)
                 /\ voteLog[i].calls[k].preThresh = ObsTh(i - 2 - futureSpan)
            /\ \A j \in 1..historyLength :
                 get(thresholdHistory, -j) = FedTh[Len(FedTh) - j + 1])

\* a call of two samples that found an indicator event: the threshold went
\* from 0 to -4 units before the loop, both samples were given -4, the rising
\* test of the second read -4 for both of its samples, and the history
\* holds -4 twice
C34_Witness ==
    /\ Evaluated /\ thresholdType = "ADAPTIVE" /\ futureSpan = 0
    /\ host.found # <<>> /\ lastBuf = <<-5, 5>>
    /\ preTh[historyLength] = 0
    /\ constantThresh = -4 /\ lastThr = <<-4, -4>>
    /\ Len(voteLog[2].calls) > 0
    /\ voteLog[2].calls[1].preThresh = -4 /\ voteLog[2].calls[1].postThresh = -4
    /\ get(thresholdHistory, -1) = -4 /\ get(thresholdHistory, -2) = -4

\* a call after the constant threshold was set to 3 units between two calls
ChangedBetweenCalls ==
    /\ Evaluated /\ thresholdType = "CONSTANT"
    /\ startTs = 2 /\ preTh[historyLength] = 0 /\ lastThr = <<3>>

\* in the type CHANNEL the call gave sample i the sample i of the channel
\* thresholdChannel of the buffer, when the stream has that channel
ThresholdsFromChannel ==
    (Evaluated /\ thresholdType = "CHANNEL" /\ thresholdChannel < Len(host.before)) =>
        lastThr = host.before[thresholdChannel + 1]

\* C35: in the type CHANNEL the threshold of sample i is the sample i of
\* the threshold channel, and whatever the settings and the changes of the
\* threshold channel and of the threshold type, that channel is not the
\* input channel.
C35_ThresholdChannelDistinct ==
    /\ ThresholdsFromChannel
    /\ (thresholdType = "CHANNEL" => thresholdChannel # inputChannel)

\* the settings as constructed (input channel 0, threshold channel 0) with
\* the type set to CHANNEL: every sample is its own threshold, and no event
\* is emitted
OwnThreshold ==
    /\ Evaluated /\ thresholdType = "CHANNEL"
    /\ inputChannel = 0 /\ thresholdChannel = 0
    /\ lastBuf = <<-5, 5>> /\ lastThr = <<-5, 5>> /\ events = <<>>

\* the counters of entry i of voteLog are within their spans
VotesInRange(i) ==
    /\ voteLog[i].past >= 0 /\ voteLog[i].past <= pastSpan
    /\ voteLog[i].future >= 0 /\ voteLog[i].future <= futureSpan

\* C36: pastSamplesAbove stays in [0, pastSpan] and futureSamplesAbove in
\* [0, futureSpan], in every state and after the update of every sample of
\* a call, each changes by at most 1 per sample, and so both are >= 0 at
\* every call of shouldTrigger, under process calls, span changes between
\* calls, changes of the threshold, stops and starts.
C36_CountersInRange ==
    /\ [](/\ pastSamplesAbove >= 0 /\ pastSamplesAbove <= pastSpan
          /\ futureSamplesAbove >= 0 /\ futureSamplesAbove <= futureSpan
          /\ \A i \in 1..Len(voteLog) : VotesInRange(i)
          /\ \A i \in 2..Len(voteLog) :
               /\ absVal(voteLog[i].past - voteLog[i - 1].past) <= 1
               /\ absVal(voteLog[i].future - voteLog[i - 1].future) <= 1)
    /\ [][lastOp' = "process" =>
            /\ absVal(voteLog'[1].past - pastSamplesAbove) <= 1
            /\ absVal(voteLog'[1].future - futureSamplesAbove) <= 1
            /\ pastSamplesAbove' = voteLog'[Len(voteLog')].past
            /\ futureSamplesAbove' = voteLog'[Len(voteLog')].future]_vars

\* a call after a stop and a start, with both spans 1: both counters are at
\* their span at a sample where shouldTrigger was called, and back at 0 at
\* the end of the call
C36_Witness ==
    /\ lastOp = "process" /\ pastSpan = 1 /\ futureSpan = 1
    /\ Len(voteLog) >= 3
    /\ \E i \in 1..(Len(voteLog) - 1) :
         /\ voteLog[i].past = 1 /\ voteLog[i].future = 1
         /\ Len(voteLog[i + 1].calls) > 0
    /\ pastSamplesAbove = 0 /\ futureSamplesAbove = 0

\* the calls of shouldTrigger for the candidate of on-event k of the last call
CallsFor(k) == voteLog[trigLog[k].cross - lastStart + futureSpan + 1].calls

\* C37: a call emits at most one on-event per candidate index, also with
\* both directions enabled; the on-events of a call and of the acquisition
\* are in strictly increasing order of crossing index; and the direction in
\* the metadata of each on-event, postVal > postThresh, is the direction of
\* the one call of shouldTrigger that returned true for its candidate.
C37_OneEventPerCandidate ==
    /\ Len(OnEvents) = Len(trigLog)
    /\ \A k \in 1..Len(trigLog) :
         /\ OnEvents[k].ev.cross = trigLog[k].cross
         /\ OnEvents[k].ev.dir = trigLog[k].dir
         /\ OnEvents[k].ev.dir = (IF OnEvents[k].ev.level > OnEvents[k].ev.thresh THEN 1 ELSE 0)
         /\ k > 1 => trigLog[k].cross > trigLog[k - 1].cross
         /\ CallsFor(k) # <<>>
         /\ \A c \in 1..Len(CallsFor(k)) :
              /\ CallsFor(k)[c].result = (c = Len(CallsFor(k)))
              /\ CallsFor(k)[c].result =>
                   CallsFor(k)[c].direction = (trigLog[k].dir = 1)
    /\ \A i \in 1..Len(voteLog) :
         (\E c \in 1..Len(voteLog[i].calls) : voteLog[i].calls[c].result)
             => \E k \in 1..Len(trigLog) :
                    trigLog[k].cross = lastStart + i - 1 - futureSpan
    /\ \A a \in 2..Len(onLog) : onLog[a].cross > onLog[a - 1].cross

\* both directions are on; one call emits a falling event for a sample that
\* equals the threshold, after the rising test of the same candidate
\* failed, and a rising event for a later candidate
C37_Witness ==
    /\ posOn /\ negOn /\ lastOp = "process"
    /\ \E k \in 1..Len(trigLog) : \E j \in 1..Len(trigLog) :
         /\ k < j
         /\ trigLog[k].dir = 0 /\ Len(CallsFor(k)) = 2
         /\ trigLog[k].postVal = constantThresh
         /\ trigLog[j].dir = 1 /\ Len(CallsFor(j)) = 1

(***************************************************************************)
(* On- and off-events over an acquisition in which the timeout is at       *)
(* least the event duration and neither changes, while futureSpan may be   *)
(* changed between two calls of process.                                   *)
(***************************************************************************)
AltSamples == 5

AltInit ==
    \E dur \in 2..3, fs \in 0..1 :
        InitWith(0, TRUE, TRUE, dur, 3, 0, fs, Scale, Scale, FALSE, 5, 1000)

AltProcess ==
    \E rp \in BuffersOver(Bits) : startTs + Len(rp) <= AltSamples /\ ProcessLogged(rp)

AltNext ==
    \/ AltProcess
    \/ StartAcquisition
    \/ \E v \in 0..1 : acquiring /\ futureSpan # v /\ SetFutureSpan(v)
    \/ acquiring /\ UpdateSettings

SpecAlt == AltInit /\ [][AltNext]_vars

\* the events of a call alternate, beginning with the pending turn-off when
\* there is one: then no on-event is emitted before it, and it is emitted
\* or stays pending
AlternatesFrom(pending, evs, left) ==
    /\ pending # <<>> =>
         \/ evs = <<>> /\ left = pending
         \/ evs # <<>> /\ evs[1].ev = pending[1]
    /\ \A k \in 1..Len(evs) :
         /\ evs[k].ev.on = ((k % 2 = 1) = (pending = <<>>))
         /\ (k > 1 /\ evs[k].ev.on) => evs[k].ev.ts > evs[k - 1].ev.ts
         /\ (k > 1 /\ ~evs[k].ev.on) =>
                /\ evs[k].ev.cross = evs[k - 1].ev.cross
                /\ evs[k].ev.ts >= evs[k - 1].ev.ts
    /\ IF evs # <<>> /\ evs[Len(evs)].ev.on
       THEN /\ left # <<>>
            /\ left[1].cross = evs[Len(evs)].ev.cross
            /\ left[1].ts > evs[Len(evs)].ev.ts
       ELSE evs # <<>> => left = <<>>

\* C38 (as claimed): when timeoutSamp >= eventDurationSamp and neither
\* changes during acquisition, the events of the acquisition alternate on,
\* off, on, off in the order of their timestamps: every call of process
\* emits the pending off-event before any on-event, each off-event is the
\* one of the on-event before it and is earlier than the next on-event, and
\* the pending off-event is never replaced before it was emitted.
C38_StrictAlternation ==
    [][(lastOp' = "process" /\ timeoutSamp >= eventDurationSamp)
          => AlternatesFrom(turnoffEvent, events', turnoffEvent')]_vars

\* the last part of C38 alone: a pending off-event leaves the slot only by
\* being emitted
PendingNeverOverwritten ==
    [][(/\ lastOp' = "process" /\ timeoutSamp >= eventDurationSamp
        /\ turnoffEvent # <<>> /\ turnoffEvent' # turnoffEvent)
          => (events' # <<>> /\ events'[1].ev = turnoffEvent[1])]_vars

(***************************************************************************)
(* The warm-up: process calls, changes of the spans, stops and starts.     *)
(* stream holds the samples processed since the last of the other          *)
(* operations, onLog the on-events since then.                             *)
(***************************************************************************)
WarmSamples == 6

WarmInit ==
    \E ps \in 0..1, fs \in 0..1 :
        InitWith(0, TRUE, TRUE, 0, 0, ps, fs, Scale, Scale, FALSE, 5, 1000)

WarmProcess ==
    \E rp \in BuffersOver(Bits) : startTs + Len(rp) <= WarmSamples /\ ProcessLogged(rp)

WarmNext ==
    \/ WarmProcess
    \/ UpdateSettings
    \/ StartAcquisition
    \/ StopAcquisition
    \/ \E v \in 0..1 : pastSpan # v /\ SetPastSpan(v)
    \/ \E v \in 0..1 : futureSpan # v /\ SetFutureSpan(v)

SpecWarm == WarmInit /\ [][WarmNext]_vars

\* the sample number of the first sample processed after the last
\* construction, span change, stop or start
FirstSince == startTs - Len(stream)

\* C39: after a construction, a span change or a stop, no on-event is
\* emitted for a candidate lower than pastSpan + futureSpan + 1, counted
\* from the first sample processed afterwards; the sample before the
\* crossing, the crossing sample and the past voting window of every
\* on-event are samples processed since then.
C39_WarmUpAfterReset ==
    /\ \A a \in 1..Len(onLog) :
         onLog[a].cross - FirstSince >= pastSpan + futureSpan + 1
    /\ \A k \in 1..Len(trigLog) :
         LET c == trigLog[k].cross - FirstSince
         IN  /\ c - 1 - pastSpan >= 0
             /\ c + futureSpan < Len(stream)
             /\ trigLog[k].preVal = stream[c]
             /\ trigLog[k].postVal = stream[c + 1]
             /\ trigLog[k].past
                  = Cardinality({j \in (c - 1 - pastSpan)..(c - 2) :
                                    stream[j + 1] > constantThresh})

\* both spans are 1 and samples were processed before the last reset; the
\* first on-event since is for candidate pastSpan + futureSpan + 1, a
\* falling one out of a past window that was above the threshold
C39_Witness ==
    /\ lastOp = "process" /\ pastSpan = 1 /\ futureSpan = 1
    /\ FirstSince > 0
    /\ Len(onLog) = 1 /\ Len(trigLog) = 1
    /\ onLog[1].cross - FirstSince = pastSpan + futureSpan + 1
    /\ onLog[1].dir = 0 /\ trigLog[1].past = 1

\* isReset only with every element the default, and the start inside the
\* array (0 in an empty one)
WellFormed(ca) ==
    /\ ca.isReset => \A k \in 1..size(ca) : ca.array[k] = DefaultElement
    /\ IF size(ca) > 0 THEN ca.start >= 0 /\ ca.start < size(ca) ELSE ca.start = 0

\* C40: after any sequence of the public operations of CircularArray, none
\* of them an enqueue or enqueueArray on an empty array, isReset implies
\* that every element is the default, and 0 <= start < size when size > 0,
\* start = 0 when the array is empty, so that every circular index of a
\* non-empty array maps to a linear index inside it; the same holds of the
\* two histories of the detector.
C40_ArrayWellFormed ==
    /\ (call.fn # "none" /\ call.asserted) =>
          /\ WellFormed(call.post)
          /\ size(call.post) > 0 =>
                \A index \in (-2 * ArrayMaxLen)..(2 * ArrayMaxLen) :
                    /\ circToLinInd(call.post, index) >= 0
                    /\ circToLinInd(call.post, index) < size(call.post)
    /\ WellFormed(inputHistory)
    /\ WellFormed(thresholdHistory)

\* an insertion at index 0 of an array that is not reset and starts at 0
\* leaves the start at the old length, the highest value it takes
C40_Witness ==
    /\ call.fn = "insertMultiple" /\ call.asserted
    /\ ~call.pre.isReset /\ size(call.pre) > 0 /\ call.pre.start = 0
    /\ call.args[1] = 0
    /\ call.post.start = size(call.pre)
    /\ size(call.post) = ArrayMaxLen

\* set(i, default) on an array that is reset leaves it reset
ResetKept ==
    /\ call.fn = "set" /\ call.asserted
    /\ call.pre.isReset /\ call.post.isReset /\ size(call.post) > 0
====
